---- MODULE Spec2Model ----
(***************************************************************************)
(* A model of nlp_architect/models/transformers/question_answering.py:     *)
(* the SQuAD feature builder (_convert_examples_to_features and its        *)
(* helpers) and the two span decoders (write_predictions and               *)
(* write_predictions_extended).                                            *)
(*                                                                         *)
(* Conventions.  Python lists are sequences; the index VALUES stored in    *)
(* the state (start_index, cls_index, the keys of token_to_orig_map ...)   *)
(* are Python's 0-based indices, so element i of a list l is l[i + 1].     *)
(* Python dicts are functions whose DOMAIN is the set of keys.  Floating   *)
(* point logits are drawn from small sets of integers.                     *)
(***************************************************************************)
EXTENDS Integers, Sequences, FiniteSets, TLC

VARIABLES
    pc,                  \* position of the running function
    cfg,                 \* the arguments of the running function
    examples,            \* the list of QuestionAnsweringInputExample
    example_index,       \* loop variable of the loop over the examples
    query_tokens,        \* _convert_examples_to_features: locals of one example
    all_doc_tokens,
    tok_to_orig_index,
    orig_to_tok_index,
    tok_start_position,
    tok_end_position,
    doc_spans,
    start_offset,
    doc_span_index,
    features,            \* the list of QAInputFeatures built / passed on
    unique_id,
    all_results,         \* decoders: the list of RawResult / RawResultExtended
    all_predictions,     \* decoders: qas_id -> text, in memory
    all_nbest_json,      \* decoders: qas_id -> n-best list, in memory
    scores_diff_json,    \* decoders: qas_id -> score difference, in memory
    cand,                \* decoders: prelim_predictions of each decoded example
    files,               \* decoders: the output files written so far
    returned,            \* << >> until the function returns, then <<its result>>
    ias,                 \* _improve_answer_span called on its own: arguments and results
    epoch,               \* train: the passes of the loop over the epochs begun so far
    step,                \* train: the index of the batch in the epoch
    global_step          \* train: the optimizer steps performed

fbVars == <<examples, example_index, query_tokens, all_doc_tokens, tok_to_orig_index,
            orig_to_tok_index, tok_start_position, tok_end_position, doc_spans,
            start_offset, doc_span_index, features, unique_id>>
decVars == <<all_results, all_predictions, all_nbest_json, scores_diff_json, cand,
             files, returned>>
trainVars == <<epoch, step, global_step>>
vars == <<pc, cfg, fbVars, decVars, ias, trainVars>>

(***************************************************************************)
(* Bounds of the model.                                                    *)
(***************************************************************************)
\* longest document, in whitespace tokens, given to the feature builder
MaxDocWords == 2
\* passes of the sliding-window loop whose DocSpans the model records
MaxDocSpans == 6
\* largest n_best_size given to the decoders
MaxNBest == 2

(***************************************************************************)
(* Python values.                                                          *)
(***************************************************************************)
\* Python's None, for the integer fields that may hold it
None == -1000

Min(a, b) == IF a < b THEN a ELSE b

Max(a, b) == IF a > b THEN a ELSE b

\* l[a:b] for 0 <= a (Python clamps the end of a slice to the list)
PySlice(l, a, b) == SubSeq(l, a + 1, Min(b, Len(l)))

\* [x] * n
Repeat(x, n) == [i \in 1..Max(n, 0) |-> x]

RECURSIVE Flatten(_)
Flatten(ls) == IF ls = << >> THEN << >> ELSE Head(ls) \o Flatten(Tail(ls))

(***************************************************************************)
(* The sub-word tokenizer is a collaborator (transformers); the model      *)
(* gives it as a table from whitespace tokens to their sub-tokens.  "zw"   *)
(* stands for a token the tokenizer cleans away entirely (control or       *)
(* zero-width characters), which yields no sub-token.                      *)
(***************************************************************************)
TokenizeWord(word) ==
    CASE word = "a" -> <<"a">>
      [] word = "b" -> <<"b">>
      [] word = "ab" -> <<"a", "##b">>
      [] word = "q" -> <<"q">>
      [] word = "empty" -> <<"empty">>
      [] word = "1895" -> <<"1895">>
      [] word = "(1895-1943)." -> <<"(", "1895", "-", "1943", ")", ".">>
      [] word = "zw" -> << >>
      [] OTHER -> <<"[UNK]">>

\* tokenizer.tokenize(text): text is given as its whitespace tokens
Tokenize(text) == Flatten([i \in 1..Len(text) |-> TokenizeWord(text[i])])

\* tokenizer.convert_tokens_to_ids: one positive id per token (0 is pad_token)
TokenId(tok) ==
    CASE tok = "[CLS]" -> 101
      [] tok = "[SEP]" -> 102
      [] tok = "q" -> 1
      [] tok = "a" -> 2
      [] tok = "b" -> 3
      [] tok = "##b" -> 4
      [] tok = "empty" -> 5
      [] OTHER -> 100

ConvertTokensToIds(tokens) == [i \in 1..Len(tokens) |-> TokenId(tokens[i])]

(***************************************************************************)
(* Default arguments of _convert_examples_to_features.                     *)
(***************************************************************************)
cls_token == "[CLS]"

sep_token == "[SEP]"

pad_token == 0

sequence_a_segment_id == 0

sequence_b_segment_id == 1

cls_token_segment_id == 0

pad_token_segment_id == 0

mask_padding_with_zero == TRUE

FirstUniqueId == 1000000000

(***************************************************************************)
(* _improve_answer_span.                                                   *)
(***************************************************************************)
\* " ".join(l) == " ".join(m) for lists of non-empty tokens without spaces
JoinEq(l, m) == l = m

RECURSIVE ImproveScan(_, _, _, _, _, _)
ImproveScan(doc_tokens, input_start, input_end, tok_answer_text, new_start, new_end) ==
    IF new_start > input_end
    THEN <<input_start, input_end>>
    ELSE IF new_end < new_start
         THEN ImproveScan(doc_tokens, input_start, input_end, tok_answer_text,
                          new_start + 1, input_end)
         ELSE IF JoinEq(PySlice(doc_tokens, new_start, new_end + 1), tok_answer_text)
              THEN <<new_start, new_end>>
              ELSE ImproveScan(doc_tokens, input_start, input_end, tok_answer_text,
                               new_start, new_end - 1)

\* a return of the exclusive end of the slice instead of the last index
ImproveAnswerSpanExclusiveEnd(doc_tokens, input_start, input_end, orig_answer_text) ==
    LET r == ImproveScan(doc_tokens, input_start, input_end,
                         Tokenize(orig_answer_text), input_start, input_end)
    IN  IF JoinEq(PySlice(doc_tokens, r[1], r[2] + 1), Tokenize(orig_answer_text))
        THEN <<r[1], r[2] + 1>>
        ELSE r

RECURSIVE ImproveScanLast(_, _, _, _, _, _)
ImproveScanLast(doc_tokens, input_start, input_end, tok_answer_text, new_start, new_end) ==
    IF new_start < input_start
    THEN <<input_start, input_end>>
    ELSE IF new_end < new_start
         THEN ImproveScanLast(doc_tokens, input_start, input_end, tok_answer_text,
                              new_start - 1, input_end)
         ELSE IF JoinEq(PySlice(doc_tokens, new_start, new_end + 1), tok_answer_text)
              THEN <<new_start, new_end>>
              ELSE ImproveScanLast(doc_tokens, input_start, input_end, tok_answer_text,
                                   new_start, new_end - 1)

\* the outer loop run from input_end down to input_start
ImproveAnswerSpanDescending(doc_tokens, input_start, input_end, orig_answer_text) ==
    ImproveScanLast(doc_tokens, input_start, input_end, Tokenize(orig_answer_text),
                    input_end, input_end)

ImproveAnswerSpan(doc_tokens, input_start, input_end, orig_answer_text) ==
    ImproveScan(doc_tokens, input_start, input_end, Tokenize(orig_answer_text),
                input_start, input_end)

(***************************************************************************)
(* _check_is_max_context.  The score min(left, right) + 0.01 * length is   *)
(* a double.  Its exact value is kept by scaling it with ScoreScale; two   *)
(* different pairs (min, length) have the same exact value only when their *)
(* lengths differ by a multiple of 100, and then their doubles can differ  *)
(* in the last place.                                                      *)
(***************************************************************************)
ScoreScale == 100

SpanEnd(doc_span) == doc_span.start + doc_span.length - 1

SpanContains(doc_span, position) ==
    ~(position < doc_span.start) /\ ~(position > SpanEnd(doc_span))

NumContext(doc_span, position) ==
    Min(position - doc_span.start, SpanEnd(doc_span) - position)

SpanScore(doc_span, position) ==
    ScoreScale * NumContext(doc_span, position) + doc_span.length

\* line 582 in IEEE double arithmetic, for the lengths the model uses: the
\* sign of (num_context + 0.01 * length) - (num_context + k + 0.01 * (length
\* - 100 * k)) computed in doubles, for the one k that gives a length below
\* 100.  The two sides are equal in exact arithmetic; in doubles
\* 1 + 0.01 * 107 = 2.0700000000000003 > 2 + 0.01 * 7 = 2.07 and
\* 2 + 0.01 * 211 = 4.109999999999999 < 4 + 0.01 * 11 = 4.11.
Rounding(num_context, length) ==
    IF length = 107 /\ num_context \in {1, 2}
    THEN 1
    ELSE IF length = 211 /\ num_context \in 2..5 THEN -1 ELSE 0

\* the double of line 582: its exact value scaled, and its rounding
DoubleScore(doc_span, position) ==
    <<SpanScore(doc_span, position),
      Rounding(NumContext(doc_span, position), doc_span.length)>>

\* score > best_score of line 583
ScoreGreater(score, best_score) ==
    \/ score[1] > best_score[1]
    \/ score[1] = best_score[1] /\ score[2] > best_score[2]

\* the loop of _check_is_max_context from span_index (0-based) on; best is
\* <<best_score, best_span_index>>, None for "no span yet"
RECURSIVE BestSpanScan(_, _, _, _)
BestSpanScan(spans, position, span_index, best) ==
    IF span_index >= Len(spans)
    THEN best
    ELSE LET doc_span == spans[span_index + 1]
         IN  IF ~SpanContains(doc_span, position)
             THEN BestSpanScan(spans, position, span_index + 1, best)
             ELSE IF best[2] = None \/ ScoreGreater(DoubleScore(doc_span, position), best[1])
                  THEN BestSpanScan(spans, position, span_index + 1,
                                    <<DoubleScore(doc_span, position), span_index>>)
                  ELSE BestSpanScan(spans, position, span_index + 1, best)

\* every span of maximal score reported as owner (no "first wins")
CheckIsMaxContextAnyBest(spans, cur_span_index, position) ==
    /\ SpanContains(spans[cur_span_index + 1], position)
    /\ DoubleScore(spans[cur_span_index + 1], position)
           = BestSpanScan(spans, position, 0, <<None, None>>)[1]

CheckIsMaxContext(spans, cur_span_index, position) ==
    cur_span_index = BestSpanScan(spans, position, 0, <<None, None>>)[2]

(***************************************************************************)
(* _convert_examples_to_features: the work done for one example before     *)
(* the sliding window.                                                     *)
(***************************************************************************)
\* lines 304-307
QueryTokens(example, max_query_length) ==
    LET toks == Tokenize(example.question_text)
    IN  IF Len(toks) > max_query_length THEN PySlice(toks, 0, max_query_length) ELSE toks

\* lines 309-317: the three lists after the first i document tokens
RECURSIVE TokenizeDoc(_, _)
TokenizeDoc(doc_tokens, i) ==
    IF i = 0
    THEN [all_doc_tokens |-> << >>, tok_to_orig_index |-> << >>, orig_to_tok_index |-> << >>]
    ELSE LET before == TokenizeDoc(doc_tokens, i - 1)
             sub_tokens == TokenizeWord(doc_tokens[i])
         IN  [all_doc_tokens |-> before.all_doc_tokens \o sub_tokens,
              tok_to_orig_index |->
                  before.tok_to_orig_index \o Repeat(i - 1, Len(sub_tokens)),
              orig_to_tok_index |->
                  Append(before.orig_to_tok_index, Len(before.all_doc_tokens))]

\* lines 319-332: <<tok_start_position, tok_end_position>>
TokPositions(example, is_training) ==
    LET td == TokenizeDoc(example.doc_tokens, Len(example.doc_tokens))
    IN  IF is_training /\ example.is_impossible
        THEN <<-1, -1>>
        ELSE IF is_training /\ ~example.is_impossible
             THEN LET tok_start == td.orig_to_tok_index[example.start_position + 1]
                      tok_end ==
                          IF example.end_position < Len(example.doc_tokens) - 1
                          THEN td.orig_to_tok_index[example.end_position + 2] - 1
                          ELSE Len(td.all_doc_tokens) - 1
                  IN  ImproveAnswerSpan(td.all_doc_tokens, tok_start, tok_end,
                                        example.orig_answer_text)
             ELSE <<None, None>>

\* line 335
MaxTokensForDoc(max_seq_length, qtokens) == max_seq_length - Len(qtokens) - 3

(***************************************************************************)
(* The sliding window, lines 342-351: one pass of the while loop.          *)
(***************************************************************************)
SpanLength(doc_len, offset, max_tokens_for_doc) ==
    IF doc_len - offset > max_tokens_for_doc THEN max_tokens_for_doc ELSE doc_len - offset

\* the offset advanced by doc_stride alone, without the min of line 351
WindowPassStrideOnly(doc_len, spans, offset, max_tokens_for_doc, doc_stride) ==
    LET length == SpanLength(doc_len, offset, max_tokens_for_doc)
    IN  [doc_spans |-> Append(spans, [start |-> offset, length |-> length]),
         start_offset |-> IF offset + length = doc_len THEN offset ELSE offset + doc_stride,
         break |-> (offset + length = doc_len)]

\* the state after one pass of the body: the spans, the offset, and whether
\* the pass ended in the break of line 350
WindowPass(doc_len, spans, offset, max_tokens_for_doc, doc_stride) ==
    LET length == SpanLength(doc_len, offset, max_tokens_for_doc)
    IN  [doc_spans |-> Append(spans, [start |-> offset, length |-> length]),
         start_offset |-> IF offset + length = doc_len
                          THEN offset
                          ELSE offset + Min(length, doc_stride),
         break |-> (offset + length = doc_len)]

\* the whole loop, for a document budget of at least 1 (where it ends)
RECURSIVE SlidingWindow(_, _, _, _, _)
SlidingWindow(doc_len, spans, offset, max_tokens_for_doc, doc_stride) ==
    IF ~(offset < doc_len)
    THEN spans
    ELSE LET p == WindowPass(doc_len, spans, offset, max_tokens_for_doc, doc_stride)
         IN  IF p.break
             THEN p.doc_spans
             ELSE SlidingWindow(doc_len, p.doc_spans, p.start_offset,
                                max_tokens_for_doc, doc_stride)

(***************************************************************************)
(* _convert_examples_to_features, lines 353-507: the Feature of one        *)
(* DocSpan.  c is the argument record, qtokens / doc / t2o the example's   *)
(* query_tokens / all_doc_tokens / tok_to_orig_index, tpos its             *)
(* <<tok_start_position, tok_end_position>>, k the doc_span_index.         *)
(***************************************************************************)
\* tokens before the paragraph, lines 363-381
TokensBefore(c, qtokens) ==
    (IF ~c.cls_token_at_end THEN <<cls_token>> ELSE << >>)
        \o (IF ~c.sequence_a_is_doc THEN qtokens \o <<sep_token>> ELSE << >>)

\* tokens after the paragraph, lines 399-419
TokensAfter(c, qtokens) ==
    (IF c.sequence_a_is_doc THEN <<sep_token>> \o qtokens ELSE << >>)
        \o <<sep_token>>
        \o (IF c.cls_token_at_end THEN <<cls_token>> ELSE << >>)

SegmentsBefore(c, qtokens) ==
    (IF ~c.cls_token_at_end THEN <<cls_token_segment_id>> ELSE << >>)
        \o (IF ~c.sequence_a_is_doc
            THEN Repeat(sequence_a_segment_id, Len(qtokens)) \o <<sequence_a_segment_id>>
            ELSE << >>)

SegmentsAfter(c, qtokens) ==
    (IF c.sequence_a_is_doc
     THEN <<sequence_a_segment_id>> \o Repeat(sequence_b_segment_id, Len(qtokens))
     ELSE << >>)
        \o <<sequence_b_segment_id>>
        \o (IF c.cls_token_at_end THEN <<cls_token_segment_id>> ELSE << >>)

PMaskBefore(c, qtokens) ==
    (IF ~c.cls_token_at_end THEN <<0>> ELSE << >>)
        \o (IF ~c.sequence_a_is_doc THEN Repeat(1, Len(qtokens)) \o <<1>> ELSE << >>)

PMaskAfter(c, qtokens) ==
    (IF c.sequence_a_is_doc THEN <<1>> \o Repeat(1, Len(qtokens)) ELSE << >>)
        \o <<1>>
        \o (IF c.cls_token_at_end THEN <<0>> ELSE << >>)

\* lines 428-432: the number of passes of the padding loop
PadCount(max_seq_length, n) == Max(max_seq_length - n, 0)

\* a padding loop that forgets p_mask
PMaskPaddingMissing(pads) == << >>

\* line 432: what the padding loop appends to p_mask
PMaskPadding(pads) == Repeat(1, pads)

\* the labels without lines 462-464: an out-of-span chunk keeps position 0
LabelsWithoutCls(c, example, qtokens, doc_span, tpos, cls_index) ==
    LET doc_start == doc_span.start
        doc_end == doc_span.start + doc_span.length - 1
        out_of_span == ~(tpos[1] >= doc_start /\ tpos[2] <= doc_end)
        doc_offset == IF c.sequence_a_is_doc THEN 0 ELSE Len(qtokens) + 2
    IN  IF c.is_training /\ ~example.is_impossible
        THEN IF out_of_span
             THEN <<0, 0, TRUE>>
             ELSE <<tpos[1] - doc_start + doc_offset, tpos[2] - doc_start + doc_offset,
                    FALSE>>
        ELSE IF c.is_training
             THEN <<None, None, TRUE>>
             ELSE <<None, None, example.is_impossible>>

\* the labels shifted by the chunk's start alone, without doc_offset
LabelsWithoutOffset(c, example, qtokens, doc_span, tpos, cls_index) ==
    LET doc_start == doc_span.start
        doc_end == doc_span.start + doc_span.length - 1
        out_of_span == ~(tpos[1] >= doc_start /\ tpos[2] <= doc_end)
    IN  IF c.is_training /\ ~example.is_impossible
        THEN IF out_of_span
             THEN <<cls_index, cls_index, TRUE>>
             ELSE <<tpos[1] - doc_start, tpos[2] - doc_start, FALSE>>
        ELSE IF c.is_training
             THEN <<cls_index, cls_index, TRUE>>
             ELSE <<None, None, example.is_impossible>>

\* lines 438-464: <<start_position, end_position, span_is_impossible>>
Labels(c, example, qtokens, doc_span, tpos, cls_index) ==
    LET doc_start == doc_span.start
        doc_end == doc_span.start + doc_span.length - 1
        out_of_span == ~(tpos[1] >= doc_start /\ tpos[2] <= doc_end)
        doc_offset == IF c.sequence_a_is_doc THEN 0 ELSE Len(qtokens) + 2
    IN  IF c.is_training /\ ~example.is_impossible
        THEN IF out_of_span
             THEN <<cls_index, cls_index, TRUE>>
             ELSE <<tpos[1] - doc_start + doc_offset, tpos[2] - doc_start + doc_offset,
                    FALSE>>
        ELSE IF c.is_training
             THEN <<cls_index, cls_index, TRUE>>
             ELSE <<None, None, example.is_impossible>>

Feature(c, example, ex_index, qtokens, doc, t2o, tpos, spans, k, uid) ==
    LET doc_span == spans[k + 1]
        before == TokensBefore(c, qtokens)
        para == [i \in 1..Max(doc_span.length, 0) |-> doc[doc_span.start + i]]
        tokens == before \o para \o TokensAfter(c, qtokens)
        keys == {Len(before) + i : i \in 0..(doc_span.length - 1)}
        cls_index == IF c.cls_token_at_end THEN Len(tokens) - 1 ELSE 0
        input_ids == ConvertTokensToIds(tokens)
        pads == PadCount(c.max_seq_length, Len(input_ids))
        lab == Labels(c, example, qtokens, doc_span, tpos, cls_index)
    IN  [unique_id |-> uid,
         example_index |-> ex_index,
         doc_span_index |-> k,
         tokens |-> tokens,
         token_to_orig_map |->
             [p \in keys |-> t2o[doc_span.start + (p - Len(before)) + 1]],
         token_is_max_context |->
             [p \in keys |->
                 CheckIsMaxContext(spans, k, doc_span.start + (p - Len(before)))],
         input_ids |-> input_ids \o Repeat(pad_token, pads),
         input_mask |-> Repeat(IF mask_padding_with_zero THEN 1 ELSE 0, Len(input_ids))
                            \o Repeat(IF mask_padding_with_zero THEN 0 ELSE 1, pads),
         segment_ids |-> SegmentsBefore(c, qtokens)
                             \o Repeat(IF ~c.sequence_a_is_doc
                                       THEN sequence_b_segment_id
                                       ELSE sequence_a_segment_id, doc_span.length)
                             \o SegmentsAfter(c, qtokens)
                             \o Repeat(pad_token_segment_id, pads),
         cls_index |-> cls_index,
         p_mask |-> PMaskBefore(c, qtokens) \o Repeat(0, doc_span.length)
                        \o PMaskAfter(c, qtokens) \o PMaskPadding(pads),
         paragraph_len |-> doc_span.length,
         start_position |-> lab[1],
         end_position |-> lab[2],
         is_impossible |-> lab[3]]

\* an id that stays as it is
SameUniqueId(uid) == uid

\* line 508
NextUniqueId(uid) == uid + 1

\* the asserts of lines 434-436
FeatureAsserts(c, f) ==
    /\ Len(f.input_ids) = c.max_seq_length
    /\ Len(f.input_mask) = c.max_seq_length
    /\ Len(f.segment_ids) = c.max_seq_length

(***************************************************************************)
(* Inputs of the feature builder.                                          *)
(***************************************************************************)
MaxSeqLength == 6

SeqLengths == 4..MaxSeqLength

DocStrides == {1, 2}

Questions == {<<"q">>, <<"q", "q", "q">>}

DocWords == {"a", "ab", "zw"}

SeqsUpTo(S, n) == UNION {[1..k -> S] : k \in 0..n}

Docs == SeqsUpTo(DocWords, MaxDocWords)

Answers == {<<"a">>, <<"ab">>}

EvalExamples ==
    {[qas_id |-> 1, question_text |-> q, doc_tokens |-> d, orig_answer_text |-> << >>,
      start_position |-> None, end_position |-> None, is_impossible |-> FALSE]
        : q \in Questions, d \in Docs}

AnswerableExamples ==
    UNION {{[qas_id |-> 1, question_text |-> q, doc_tokens |-> d, orig_answer_text |-> a,
             start_position |-> s, end_position |-> e, is_impossible |-> FALSE]
               : q \in Questions, a \in Answers,
                 s \in 0..(Len(d) - 1), e \in 0..(Len(d) - 1)}
           : d \in Docs}

TrainExamples ==
    {x \in AnswerableExamples : x.start_position <= x.end_position}
        \cup {[qas_id |-> 1, question_text |-> q, doc_tokens |-> d,
               orig_answer_text |-> << >>, start_position |-> -1, end_position |-> -1,
               is_impossible |-> TRUE] : q \in Questions, d \in Docs}

\* lists of several examples: short documents, unanswerable, one per qas_id
PlainExample(id, d) ==
    [qas_id |-> id, question_text |-> <<"q">>, doc_tokens |-> d, orig_answer_text |-> << >>,
     start_position |-> -1, end_position |-> -1, is_impossible |-> TRUE]

PlainDocs == {<< >>, <<"a">>, <<"a", "ab">>}

PlainLists ==
    {<< >>} \cup {<<PlainExample(1, d1), PlainExample(2, d2)>> : d1, d2 \in PlainDocs}

ExampleLists(is_training) ==
    {<<x>> : x \in (IF is_training THEN TrainExamples ELSE EvalExamples)} \cup PlainLists

FBConfigs ==
    {[max_seq_length |-> m, doc_stride |-> st, max_query_length |-> 2,
      is_training |-> tr, cls_token_at_end |-> xl, sequence_a_is_doc |-> xl]
        : m \in SeqLengths, st \in DocStrides, tr \in BOOLEAN, xl \in BOOLEAN}

\* train has not been called
NoTraining ==
    /\ epoch = 0
    /\ step = 0
    /\ global_step = 0

NoDecoding ==
    /\ all_results = << >>
    /\ all_predictions = << >>
    /\ all_nbest_json = << >>
    /\ scores_diff_json = << >>
    /\ cand = << >>
    /\ files = {}
    /\ returned = << >>

NoExampleLocals ==
    /\ query_tokens = << >>
    /\ all_doc_tokens = << >>
    /\ tok_to_orig_index = << >>
    /\ orig_to_tok_index = << >>
    /\ tok_start_position = None
    /\ tok_end_position = None
    /\ doc_spans = << >>
    /\ start_offset = 0
    /\ doc_span_index = 0

(***************************************************************************)
(* _convert_examples_to_features as a process.                             *)
(***************************************************************************)
InitFB ==
    /\ pc = "examples"
    /\ cfg \in FBConfigs
    /\ examples \in ExampleLists(cfg.is_training)
    /\ example_index = 0
    /\ NoExampleLocals
    /\ features = << >>
    /\ unique_id = FirstUniqueId
    /\ NoDecoding
    /\ ias = << >>
    /\ NoTraining

\* lines 299-343: the head of the loop over the examples, up to the sliding window
StartExample ==
    /\ pc = "examples"
    /\ example_index < Len(examples)
    /\ LET example == examples[example_index + 1]
           td == TokenizeDoc(example.doc_tokens, Len(example.doc_tokens))
           tpos == TokPositions(example, cfg.is_training)
       IN  /\ query_tokens' = QueryTokens(example, cfg.max_query_length)
           /\ all_doc_tokens' = td.all_doc_tokens
           /\ tok_to_orig_index' = td.tok_to_orig_index
           /\ orig_to_tok_index' = td.orig_to_tok_index
           /\ tok_start_position' = tpos[1]
           /\ tok_end_position' = tpos[2]
    /\ doc_spans' = << >>
    /\ start_offset' = 0
    /\ doc_span_index' = 0
    /\ pc' = "doc_spans"
    /\ UNCHANGED <<cfg, examples, example_index, features, unique_id, decVars, ias, trainVars>>

\* line 344: the while condition is true
WhileDocSpans ==
    /\ pc = "doc_spans"
    /\ start_offset < Len(all_doc_tokens)
    /\ pc' = "doc_span"
    /\ UNCHANGED <<cfg, fbVars, decVars, ias, trainVars>>

\* lines 345-351: the body of the while loop.  The first MaxDocSpans passes
\* are followed exactly; a loop that is still running then has a document
\* budget of 0 or less (LoopsOnlyWithoutBudget), its start_offset never grows
\* and it never breaks, and of its further passes only the position is kept.
AppendDocSpan ==
    /\ pc = "doc_span"
    /\ LET p == WindowPass(Len(all_doc_tokens), doc_spans, start_offset,
                           MaxTokensForDoc(cfg.max_seq_length, query_tokens),
                           cfg.doc_stride)
       IN  /\ IF Len(doc_spans) < MaxDocSpans
              THEN doc_spans' = p.doc_spans /\ start_offset' = p.start_offset
              ELSE UNCHANGED <<doc_spans, start_offset>>
           /\ pc' = IF p.break THEN "features" ELSE "doc_spans"
    /\ UNCHANGED <<cfg, examples, example_index, query_tokens, all_doc_tokens,
                   tok_to_orig_index, orig_to_tok_index, tok_start_position,
                   tok_end_position, doc_span_index, features, unique_id, decVars, ias,
                   trainVars>>

\* line 344: the while condition is false
EndDocSpans ==
    /\ pc = "doc_spans"
    /\ ~(start_offset < Len(all_doc_tokens))
    /\ pc' = "features"
    /\ UNCHANGED <<cfg, fbVars, decVars, ias, trainVars>>

\* lines 353-508: one pass of the loop over the DocSpans
BuildFeature ==
    /\ pc = "features"
    /\ doc_span_index < Len(doc_spans)
    /\ LET f == Feature(cfg, examples[example_index + 1], example_index, query_tokens,
                        all_doc_tokens, tok_to_orig_index,
                        <<tok_start_position, tok_end_position>>, doc_spans,
                        doc_span_index, unique_id)
       IN  IF FeatureAsserts(cfg, f)
           THEN /\ features' = Append(features, f)
                /\ unique_id' = NextUniqueId(unique_id)
                /\ doc_span_index' = doc_span_index + 1
                /\ pc' = "features"
           ELSE /\ pc' = "AssertionError"
                /\ UNCHANGED <<features, unique_id, doc_span_index>>
    /\ UNCHANGED <<cfg, examples, example_index, query_tokens, all_doc_tokens,
                   tok_to_orig_index, orig_to_tok_index, tok_start_position,
                   tok_end_position, doc_spans, start_offset, decVars, ias, trainVars>>

\* the loop over the DocSpans is over: on to the next example
NextExample ==
    /\ pc = "features"
    /\ doc_span_index = Len(doc_spans)
    /\ example_index' = example_index + 1
    /\ pc' = "examples"
    /\ UNCHANGED <<cfg, examples, query_tokens, all_doc_tokens, tok_to_orig_index,
                   orig_to_tok_index, tok_start_position, tok_end_position, doc_spans,
                   start_offset, doc_span_index, features, unique_id, decVars, ias, trainVars>>

\* line 510
ReturnFeatures ==
    /\ pc = "examples"
    /\ example_index = Len(examples)
    /\ pc' = "returned"
    /\ UNCHANGED <<cfg, fbVars, decVars, ias, trainVars>>

NextFB ==
    \/ StartExample
    \/ WhileDocSpans
    \/ AppendDocSpan
    \/ EndDocSpans
    \/ BuildFeature
    \/ NextExample
    \/ ReturnFeatures

SpecFB == InitFB /\ [][NextFB]_vars

\* the call as it is scheduled: a single thread that takes its next step
\* whenever there is one
SpecFBLive == InitFB /\ [][NextFB]_vars /\ WF_vars(NextFB)

(***************************************************************************)
(* convert_to_tensors, lines 67-97, of a model of type model_type: the     *)
(* feature builder is called with the arguments of lines 73-78, and its    *)
(* Features are copied to the tensors of the dataset.                      *)
(***************************************************************************)
ModelTypes == {"bert", "xlnet"}

\* lines 73-78: the arguments passed on; the others keep the defaults of
\* lines 285-290
ConvertToTensorsArgs(model_type, evaluate, max_seq_length, doc_stride, max_query_length) ==
    [model_type |-> model_type, evaluate |-> evaluate,
     max_seq_length |-> max_seq_length, doc_stride |-> doc_stride,
     max_query_length |-> max_query_length, is_training |-> ~evaluate,
     cls_token_at_end |-> FALSE, sequence_a_is_doc |-> FALSE]

InitCTT ==
    /\ pc = "examples"
    /\ \E mt \in ModelTypes, ev \in BOOLEAN, m \in SeqLengths, st \in DocStrides :
          cfg = ConvertToTensorsArgs(mt, ev, m, st, 2)
    /\ examples \in ExampleLists(cfg.is_training)
    /\ example_index = 0
    /\ NoExampleLocals
    /\ features = << >>
    /\ unique_id = FirstUniqueId
    /\ NoDecoding
    /\ ias = << >>
    /\ NoTraining

\* lines 80-94: the rows of the TensorDataset
TensorDataset(fs, evaluate) ==
    [i \in 1..Len(fs) |->
        IF evaluate
        THEN <<fs[i].input_ids, fs[i].input_mask, fs[i].segment_ids, i - 1,
               fs[i].cls_index, fs[i].p_mask>>
        ELSE <<fs[i].input_ids, fs[i].input_mask, fs[i].segment_ids,
               fs[i].start_position, fs[i].end_position, fs[i].cls_index, fs[i].p_mask>>]

\* lines 80-97
ReturnTensors ==
    /\ pc = "returned"
    /\ returned' = IF cfg.evaluate
                   THEN <<TensorDataset(features, TRUE), features>>
                   ELSE <<TensorDataset(features, FALSE)>>
    /\ pc' = "tensors"
    /\ UNCHANGED <<cfg, fbVars, all_results, all_predictions, all_nbest_json,
                   scores_diff_json, cand, files, ias, trainVars>>

NextCTT ==
    \/ NextFB
    \/ ReturnTensors

SpecCTT == InitCTT /\ [][NextCTT]_vars

(***************************************************************************)
(* Helpers shared by the two decoders.  A text is the sequence of its      *)
(* pieces, " " standing between two whitespace tokens: "" is << >> and     *)
(* the placeholder "empty" is <<"empty">>.                                 *)
(***************************************************************************)
\* sorted(l, key, reverse=True): stable, so equal keys keep their order; keys[i]
\* is the key of l[i]
SortedPosition(keys, i) ==
    Cardinality({j \in 1..Len(keys) : keys[j] > keys[i]})
        + Cardinality({j \in 1..(i - 1) : keys[j] = keys[i]}) + 1

\* the list left as it is
Unsorted(l, keys) == l

SortedDesc(l, keys) ==
    [p \in 1..Len(l) |-> l[CHOOSE i \in 1..Len(l) : SortedPosition(keys, i) = p]]

\* lines 597-599 / 803-805: example_index_to_features[example_index]
FeaturesOf(all_features, ex_index) ==
    SelectSeq(all_features, LAMBDA f : f.example_index = ex_index)

\* lines 601-603 / 807-809: the keys of unique_id_to_result
ResultIds(results) == {results[i].unique_id : i \in 1..Len(results)}

\* the result found at the place of the Feature in the list of all Features
ResultOfByPosition(results, uid) ==
    results[Min(Len(results), Max(1, uid - FirstUniqueId + 1))]

\* unique_id_to_result[uid]: the last result of the list carrying uid
ResultOf(results, uid) ==
    results[CHOOSE i \in 1..Len(results) :
                /\ results[i].unique_id = uid
                /\ \A j \in (i + 1)..Len(results) : results[j].unique_id # uid]

\* a sub-token without its continuation mark (lines 691-692)
Unmarked(tok) == IF tok = "##b" THEN "b" ELSE tok

\* lines 684-699 / 887-898: the text of tokens start_index..end_index of a
\* Feature, as get_final_text cuts it out of the original tokens: the pieces in
\* order, with a space wherever the original token changes (every original
\* word between the two has sub-tokens; the tokenizer of line 891 joins the
\* sub-tokens of a word as lines 688-692 do)
RECURSIVE FinalText(_, _, _)
FinalText(feature, start_index, end_index) ==
    IF end_index < start_index
    THEN << >>
    ELSE IF end_index = start_index
         THEN <<Unmarked(feature.tokens[start_index + 1])>>
         ELSE FinalText(feature, start_index, end_index - 1)
                  \o (IF feature.token_to_orig_map[end_index]
                             # feature.token_to_orig_map[end_index - 1]
                      THEN <<" ">>
                      ELSE << >>)
                  \o <<Unmarked(feature.tokens[end_index + 1])>>

SeenNever(final_text, seen_predictions) == FALSE

\* lines 700 and 900: final_text in seen_predictions
InSeenPredictions(final_text, seen_predictions) == final_text \in seen_predictions

\* the initial score_null of lines 618 and 820
LargeScore == 1000000

EmptyText == << >>

\* the text "empty" of the nonce prediction, lines 726 and 732
PlaceholderText == <<"empty">>

(***************************************************************************)
(* write_predictions: the work done for one example.                       *)
(***************************************************************************)
\* lines 970-979
GetBestIndexes(logits, n_best_size) ==
    LET index_and_score == SortedDesc([i \in 1..Len(logits) |-> i - 1], logits)
    IN  SubSeq(index_and_score, 1, Min(n_best_size, Len(index_and_score)))

NullTrackingLast(fs, results, n) ==
    IF n = 0
    THEN <<LargeScore, 0, 0, 0>>
    ELSE LET result == ResultOf(results, fs[n].unique_id)
         IN  <<result.start_logits[1] + result.end_logits[1], n - 1,
               result.start_logits[1], result.end_logits[1]>>

\* lines 627-633 over the features in order: <<score_null, min_null_feature_index,
\* null_start_logit, null_end_logit>> after the first n features
RECURSIVE NullTracking(_, _, _)
NullTracking(fs, results, n) ==
    IF n = 0
    THEN <<LargeScore, 0, 0, 0>>
    ELSE LET before == NullTracking(fs, results, n - 1)
             result == ResultOf(results, fs[n].unique_id)
             feature_null_score == result.start_logits[1] + result.end_logits[1]
         IN  IF feature_null_score < before[1]
             THEN <<feature_null_score, n - 1, result.start_logits[1], result.end_logits[1]>>
             ELSE before

ValidSpanAnyLength(feature, start_index, end_index, max_answer_length) ==
    /\ ~(start_index >= Len(feature.tokens))
    /\ ~(end_index >= Len(feature.tokens))
    /\ start_index \in DOMAIN feature.token_to_orig_map
    /\ end_index \in DOMAIN feature.token_to_orig_map
    /\ (IF start_index \in DOMAIN feature.token_is_max_context
        THEN feature.token_is_max_context[start_index]
        ELSE FALSE)
    /\ ~(end_index < start_index)

\* the filters of lines 639-653
ValidSpan(feature, start_index, end_index, max_answer_length) ==
    /\ ~(start_index >= Len(feature.tokens))
    /\ ~(end_index >= Len(feature.tokens))
    /\ start_index \in DOMAIN feature.token_to_orig_map
    /\ end_index \in DOMAIN feature.token_to_orig_map
    /\ (IF start_index \in DOMAIN feature.token_is_max_context
        THEN feature.token_is_max_context[start_index]
        ELSE FALSE)
    /\ ~(end_index < start_index)
    /\ ~(end_index - start_index + 1 > max_answer_length)

\* lines 634-660 for one feature: its candidates in loop order
FeaturePrelims(feature, feature_index, result, n_best_size, max_answer_length) ==
    LET start_indexes == GetBestIndexes(result.start_logits, n_best_size)
        end_indexes == GetBestIndexes(result.end_logits, n_best_size)
        pairs == Flatten([a \in 1..Len(start_indexes) |->
                             [b \in 1..Len(end_indexes) |->
                                 <<start_indexes[a], end_indexes[b]>>]])
        kept == SelectSeq(pairs,
                          LAMBDA pr : ValidSpan(feature, pr[1], pr[2], max_answer_length))
    IN  [i \in 1..Len(kept) |->
            [feature_index |-> feature_index,
             start_index |-> kept[i][1],
             end_index |-> kept[i][2],
             start_logit |-> result.start_logits[kept[i][1] + 1],
             end_logit |-> result.end_logits[kept[i][2] + 1]]]

\* the null candidate of lines 661-668
NullPrelim(nt) ==
    [feature_index |-> nt[2], start_index |-> 0, end_index |-> 0,
     start_logit |-> nt[3], end_logit |-> nt[4]]

CombinedScores(l) == [i \in 1..Len(l) |-> l[i].start_logit + l[i].end_logit]

\* lines 616-672: prelim_predictions of one example, sorted
PrelimPredictions(c, fs, results) ==
    LET found == Flatten([k \in 1..Len(fs) |->
                             FeaturePrelims(fs[k], k - 1, ResultOf(results, fs[k].unique_id),
                                            c.n_best_size, c.max_answer_length)])
        all == IF c.version_2_with_negative
               THEN Append(found, NullPrelim(NullTracking(fs, results, Len(fs))))
               ELSE found
    IN  SortedDesc(all, CombinedScores(all))

\* the loop that breaks once the list is longer than n_best_size
RECURSIVE NBestLoopLateBreak(_, _, _, _, _)
NBestLoopLateBreak(fs, prelim, n_best_size, i, st) ==
    IF i > Len(prelim) \/ Len(st.nbest) > n_best_size \/ st.err # "none"
    THEN st
    ELSE LET pred == prelim[i]
         IN  IF pred.feature_index >= Len(fs)
             THEN [st EXCEPT !.err = "IndexError"]
             ELSE IF pred.start_index > 0
                  THEN LET final_text ==
                               FinalText(fs[pred.feature_index + 1], pred.start_index,
                                         pred.end_index)
                       IN  IF InSeenPredictions(final_text, st.seen)
                           THEN NBestLoopLateBreak(fs, prelim, n_best_size, i + 1, st)
                           ELSE NBestLoopLateBreak(fs, prelim, n_best_size, i + 1,
                                    [st EXCEPT
                                        !.seen = @ \cup {final_text},
                                        !.nbest = Append(@,
                                            [text |-> final_text,
                                             start_logit |-> pred.start_logit,
                                             end_logit |-> pred.end_logit])])
                  ELSE NBestLoopLateBreak(fs, prelim, n_best_size, i + 1,
                           [st EXCEPT
                               !.seen = @ \cup {EmptyText},
                               !.nbest = Append(@,
                                   [text |-> EmptyText,
                                    start_logit |-> pred.start_logit,
                                    end_logit |-> pred.end_logit])])

\* lines 677-712: the loop over prelim_predictions from the i-th on; st is
\* [nbest, seen, err]
RECURSIVE NBestLoop(_, _, _, _, _)
NBestLoop(fs, prelim, n_best_size, i, st) ==
    IF i > Len(prelim) \/ Len(st.nbest) >= n_best_size \/ st.err # "none"
    THEN st
    ELSE LET pred == prelim[i]
         IN  IF pred.feature_index >= Len(fs)
             THEN [st EXCEPT !.err = "IndexError"]
             ELSE IF pred.start_index > 0
                  THEN LET final_text ==
                               FinalText(fs[pred.feature_index + 1], pred.start_index,
                                         pred.end_index)
                       IN  IF InSeenPredictions(final_text, st.seen)
                           THEN NBestLoop(fs, prelim, n_best_size, i + 1, st)
                           ELSE NBestLoop(fs, prelim, n_best_size, i + 1,
                                    [st EXCEPT
                                        !.seen = @ \cup {final_text},
                                        !.nbest = Append(@,
                                            [text |-> final_text,
                                             start_logit |-> pred.start_logit,
                                             end_logit |-> pred.end_logit])])
                  ELSE NBestLoop(fs, prelim, n_best_size, i + 1,
                           [st EXCEPT
                               !.seen = @ \cup {EmptyText},
                               !.nbest = Append(@,
                                   [text |-> EmptyText,
                                    start_logit |-> pred.start_logit,
                                    end_logit |-> pred.end_logit])])

PlaceholderEntry == [text |-> PlaceholderText, start_logit |-> 0, end_logit |-> 0]

\* the completion without the nonce prediction of lines 724-726
CompleteNBestWithoutNonce(c, st, nt) ==
    LET with_null ==
            IF c.version_2_with_negative /\ EmptyText \notin st.seen
            THEN Append(st.nbest,
                        [text |-> EmptyText, start_logit |-> nt[3], end_logit |-> nt[4]])
            ELSE st.nbest
    IN  IF with_null = << >> THEN <<PlaceholderEntry>> ELSE with_null

\* lines 713-732: the forced null entry and the nonce predictions
CompleteNBest(c, st, nt) ==
    LET with_null ==
            IF c.version_2_with_negative /\ EmptyText \notin st.seen
            THEN Append(st.nbest,
                        [text |-> EmptyText, start_logit |-> nt[3], end_logit |-> nt[4]])
            ELSE st.nbest
        with_nonce ==
            IF c.version_2_with_negative /\ Len(with_null) = 1
            THEN <<PlaceholderEntry>> \o with_null
            ELSE with_null
    IN  IF with_nonce = << >> THEN <<PlaceholderEntry>> ELSE with_nonce

\* lines 737-742: the index of best_non_null_entry in nbest, 0 for None
BestNonNull(nbest) ==
    IF \E i \in 1..Len(nbest) : nbest[i].text # EmptyText
    THEN CHOOSE i \in 1..Len(nbest) :
             /\ nbest[i].text # EmptyText
             /\ \A j \in 1..(i - 1) : nbest[j].text = EmptyText
    ELSE 0

\* lines 613-768: one pass of the loop over the examples.  err names the
\* exception raised, "none" if none
DecodeStandard(c, fs, results) ==
    IF \E k \in 1..Len(fs) : fs[k].unique_id \notin ResultIds(results)
    THEN [err |-> "KeyError"]
    ELSE LET nt == IF c.version_2_with_negative
                   THEN NullTracking(fs, results, Len(fs))
                   ELSE <<LargeScore, 0, 0, 0>>
             prelim == PrelimPredictions(c, fs, results)
             st == NBestLoop(fs, prelim, c.n_best_size, 1,
                             [nbest |-> << >>, seen |-> {}, err |-> "none"])
             nbest == CompleteNBest(c, st, nt)
             best == BestNonNull(nbest)
         IN  IF st.err # "none"
             THEN [err |-> st.err]
             ELSE IF ~c.version_2_with_negative
                  THEN [err |-> "none", prelim |-> prelim, nbest |-> nbest,
                        prediction |-> nbest[1].text, score_null |-> nt[1],
                        score_diff |-> None]
                  ELSE IF best = 0
                       THEN [err |-> "AttributeError"]
                       ELSE LET score_diff ==
                                    nt[1] - nbest[best].start_logit - nbest[best].end_logit
                            IN  [err |-> "none", prelim |-> prelim, nbest |-> nbest,
                                 prediction |->
                                     IF score_diff > c.null_score_diff_threshold
                                     THEN EmptyText
                                     ELSE nbest[best].text,
                                 score_null |-> nt[1],
                                 score_diff |-> score_diff]

(***************************************************************************)
(* write_predictions_extended: the work done for one example.              *)
(***************************************************************************)
\* the null score of the last feature alone
ScoreNullExtendedLast(fs, results, n) ==
    IF n = 0 THEN LargeScore ELSE ResultOf(results, fs[n].unique_id).cls_logits

\* lines 825-828 over the features in order
RECURSIVE ScoreNullExtended(_, _, _)
ScoreNullExtended(fs, results, n) ==
    IF n = 0
    THEN LargeScore
    ELSE Min(ScoreNullExtended(fs, results, n - 1),
             ResultOf(results, fs[n].unique_id).cls_logits)

\* the filters without the max-context test of lines 847-848
ValidSpanExtendedAnyOwner(feature, start_index, end_index, max_answer_length) ==
    /\ ~(start_index >= feature.paragraph_len - 1)
    /\ ~(end_index >= feature.paragraph_len - 1)
    /\ ~(end_index < start_index)
    /\ ~(end_index - start_index + 1 > max_answer_length)

\* the filters of lines 843-854
ValidSpanExtended(feature, start_index, end_index, max_answer_length) ==
    /\ ~(start_index >= feature.paragraph_len - 1)
    /\ ~(end_index >= feature.paragraph_len - 1)
    /\ (IF start_index \in DOMAIN feature.token_is_max_context
        THEN feature.token_is_max_context[start_index]
        ELSE FALSE)
    /\ ~(end_index < start_index)
    /\ ~(end_index - start_index + 1 > max_answer_length)

\* lines 830-862 for one feature: its candidates in loop order
FeaturePrelimsExtended(c, feature, feature_index, result) ==
    LET pairs == Flatten([i \in 1..c.start_n_top |->
                             [j \in 1..c.end_n_top |->
                                 <<i - 1, (i - 1) * c.end_n_top + (j - 1)>>]])
        kept == SelectSeq(pairs,
                    LAMBDA pr : ValidSpanExtended(feature,
                                                  result.start_top_index[pr[1] + 1],
                                                  result.end_top_index[pr[2] + 1],
                                                  c.max_answer_length))
    IN  [n \in 1..Len(kept) |->
            [feature_index |-> feature_index,
             start_index |-> result.start_top_index[kept[n][1] + 1],
             end_index |-> result.end_top_index[kept[n][2] + 1],
             start_logit |-> result.start_top_log_probs[kept[n][1] + 1],
             end_logit |-> result.end_top_log_probs[kept[n][2] + 1]]]

\* lines 818-867: prelim_predictions of one example, sorted
PrelimPredictionsExtended(c, fs, results) ==
    LET found == Flatten([k \in 1..Len(fs) |->
                             FeaturePrelimsExtended(c, fs[k], k - 1,
                                                    ResultOf(results, fs[k].unique_id))])
    IN  SortedDesc(found, CombinedScores(found))

\* lines 869-909: the loop over prelim_predictions from the i-th on
RECURSIVE NBestLoopExtended(_, _, _, _, _)
NBestLoopExtended(fs, prelim, n_best_size, i, st) ==
    IF i > Len(prelim) \/ Len(st.nbest) >= n_best_size \/ st.err # "none"
    THEN st
    ELSE LET pred == prelim[i]
             feature == fs[pred.feature_index + 1]
         IN  IF \/ pred.start_index \notin DOMAIN feature.token_to_orig_map
                \/ pred.end_index \notin DOMAIN feature.token_to_orig_map
             THEN [st EXCEPT !.err = "KeyError"]
             ELSE LET final_text == FinalText(feature, pred.start_index, pred.end_index)
                  IN  IF InSeenPredictions(final_text, st.seen)
                      THEN NBestLoopExtended(fs, prelim, n_best_size, i + 1, st)
                      ELSE NBestLoopExtended(fs, prelim, n_best_size, i + 1,
                               [st EXCEPT
                                   !.seen = @ \cup {final_text},
                                   !.nbest = Append(@,
                                       [text |-> final_text,
                                        start_logit |-> pred.start_logit,
                                        end_logit |-> pred.end_logit])])

\* lines 915-916: the nonce prediction of the pointer head
PlaceholderEntryExtended ==
    [text |-> EmptyText, start_logit |-> -LargeScore, end_logit |-> -LargeScore]

\* lines 815-945: one pass of the loop over the examples
DecodeExtended(c, fs, results) ==
    IF \E k \in 1..Len(fs) : fs[k].unique_id \notin ResultIds(results)
    THEN [err |-> "KeyError"]
    ELSE LET prelim == PrelimPredictionsExtended(c, fs, results)
             st == NBestLoopExtended(fs, prelim, c.n_best_size, 1,
                                     [nbest |-> << >>, seen |-> {}, err |-> "none"])
             nbest == IF st.nbest = << >> THEN <<PlaceholderEntryExtended>> ELSE st.nbest
             score_null == ScoreNullExtended(fs, results, Len(fs))
         IN  IF st.err # "none"
             THEN [err |-> st.err]
             ELSE [err |-> "none", prelim |-> prelim, nbest |-> nbest,
                   prediction |-> nbest[1].text, score_null |-> score_null,
                   score_diff |-> score_null]

(***************************************************************************)
(* _improve_answer_span on its own: the arguments are drawn in the initial *)
(* state, the function is applied, and applied again to what it returned.  *)
(***************************************************************************)
\* longest list of sub-tokens handed to _improve_answer_span on its own
MaxSpanDocLen == 3

SubTokens == {"a", "b"}

\* the sub-tokens of "(1895-1943)." (the comment of lines 521-527)
ParenthesisDoc == TokenizeWord("(1895-1943).")

SpanDocs ==
    {d \in SeqsUpTo(SubTokens, MaxSpanDocLen) : Len(d) >= 1} \cup {ParenthesisDoc}

SpanAnswers == {<<"a">>, <<"a", "b">>, <<"1895">>}

InitIAS ==
    /\ pc = "improve"
    /\ \E d \in SpanDocs, a \in SpanAnswers :
         \E s \in 0..(Len(d) - 1), e \in 0..(Len(d) - 1) :
            ias = [doc_tokens |-> d, input_start |-> s, input_end |-> e,
                   orig_answer_text |-> a, out |-> <<None, None>>,
                   again |-> <<None, None>>]
    /\ cfg = << >>
    /\ examples = << >>
    /\ example_index = 0
    /\ NoExampleLocals
    /\ features = << >>
    /\ unique_id = FirstUniqueId
    /\ NoDecoding
    /\ NoTraining

ImproveOnce ==
    /\ pc = "improve"
    /\ ias' = [ias EXCEPT !.out = ImproveAnswerSpan(ias.doc_tokens, ias.input_start,
                                                    ias.input_end, ias.orig_answer_text)]
    /\ pc' = "improved"
    /\ UNCHANGED <<cfg, fbVars, decVars, trainVars>>

ImproveAgain ==
    /\ pc = "improved"
    /\ ias' = [ias EXCEPT !.again = ImproveAnswerSpan(ias.doc_tokens, ias.out[1],
                                                      ias.out[2], ias.orig_answer_text)]
    /\ pc' = "improved_again"
    /\ UNCHANGED <<cfg, fbVars, decVars, trainVars>>

NextIAS ==
    \/ ImproveOnce
    \/ ImproveAgain

SpecIAS == InitIAS /\ [][NextIAS]_vars

(***************************************************************************)
(* The decoders as a process.  Their arguments are drawn in the initial    *)
(* state: the examples, the Features the feature builder makes of them in  *)
(* evaluation mode (convert_to_tensors, lines 73-78), the results of the   *)
(* model for these Features, and the decoding parameters.                  *)
(***************************************************************************)
\* the Features of one example, for a document budget of at least 1
ExampleFeatures(c, example, ex_index, uid) ==
    LET qtokens == QueryTokens(example, c.max_query_length)
        td == TokenizeDoc(example.doc_tokens, Len(example.doc_tokens))
        spans == SlidingWindow(Len(td.all_doc_tokens), << >>, 0,
                               MaxTokensForDoc(c.max_seq_length, qtokens), c.doc_stride)
    IN  [k \in 1..Len(spans) |->
            Feature(c, example, ex_index, qtokens, td.all_doc_tokens,
                    td.tok_to_orig_index, TokPositions(example, c.is_training),
                    spans, k - 1, uid + k - 1)]

\* what _convert_examples_to_features returns for the first n examples
RECURSIVE ConvertExamples(_, _, _)
ConvertExamples(c, exs, n) ==
    IF n = 0
    THEN << >>
    ELSE LET before == ConvertExamples(c, exs, n - 1)
         IN  before \o ExampleFeatures(c, exs[n], n - 1, FirstUniqueId + Len(before))

EvalExample(id, d) ==
    [qas_id |-> id, question_text |-> <<"q">>, doc_tokens |-> d, orig_answer_text |-> << >>,
     start_position |-> None, end_position |-> None, is_impossible |-> FALSE]

\* scenarios of the standard head: max_seq_length, doc_stride, examples.  With
\* one query token the document budget is max_seq_length - 4.
StandardScenarios ==
    {<<6, 1, <<EvalExample(1, <<"a", "b", "a">>)>> >>,
     <<6, 2, <<EvalExample(1, <<"empty", "ab">>)>> >>,
     <<6, 1, <<EvalExample(1, <<"a">>), EvalExample(2, << >>)>> >>,
     <<6, 1, <<EvalExample(1, <<"zw">>), EvalExample(2, <<"empty", "empty">>)>> >>}

\* scenarios of the pointer head, also with the layout: TRUE is the layout with
\* the document first, FALSE the layout convert_to_tensors builds
PointerScenarios ==
    {<<7, 1, <<EvalExample(1, <<"a", "a", "b", "a">>)>>, TRUE>>,
     <<7, 3, <<EvalExample(1, <<"ab", "a">>), EvalExample(2, << >>)>>, TRUE>>,
     <<9, 5, <<EvalExample(1, <<"a", "a", "a", "a", "a">>)>>, FALSE>>}

Thresholds == {0, 2}

AnswerLengths == {1, 2}

StandardConfigs ==
    {[head |-> "standard", max_seq_length |-> sc[1], doc_stride |-> sc[2],
      max_query_length |-> 2, is_training |-> FALSE, cls_token_at_end |-> FALSE,
      sequence_a_is_doc |-> FALSE, n_best_size |-> n, max_answer_length |-> ml,
      version_2_with_negative |-> v2, null_score_diff_threshold |-> th,
      start_n_top |-> 0, end_n_top |-> 0, dataset |-> sc[3]]
        : sc \in StandardScenarios, n \in 0..MaxNBest, ml \in AnswerLengths,
          v2 \in BOOLEAN, th \in Thresholds}

TopK == 2

PointerConfigs ==
    {[head |-> "pointer", max_seq_length |-> sc[1], doc_stride |-> sc[2],
      max_query_length |-> 2, is_training |-> FALSE, cls_token_at_end |-> sc[4],
      sequence_a_is_doc |-> sc[4], n_best_size |-> n, max_answer_length |-> ml,
      version_2_with_negative |-> v2, null_score_diff_threshold |-> 0,
      start_n_top |-> TopK, end_n_top |-> TopK, dataset |-> sc[3]]
        : sc \in PointerScenarios, n \in 0..MaxNBest, ml \in AnswerLengths,
          v2 \in BOOLEAN}

DecConfigs ==
    {c \in StandardConfigs : c.version_2_with_negative \/ c.null_score_diff_threshold = 0}
        \cup PointerConfigs

\* logits of the standard head: 2 at position h[1] plus 1 at position h[2],
\* 0 elsewhere
LogitVector(n, h) ==
    [i \in 1..n |-> (IF i - 1 = h[1] THEN 2 ELSE 0) + (IF i - 1 = h[2] THEN 1 ELSE 0)]

LogitShapes == {<<3, 4>>, <<4, 3>>, <<0, 3>>, <<1, 4>>, <<4, 4>>, <<0, 0>>}

StandardResults(f) ==
    {[unique_id |-> f.unique_id,
      start_logits |-> LogitVector(Len(f.input_ids), hs),
      end_logits |-> LogitVector(Len(f.input_ids), he)] : hs, he \in LogitShapes}

StartTopIndexes == {<<0, 1>>, <<1, 0>>, <<3, 6>>}

EndTopIndexes == {<<0, 1, 1, 0>>, <<1, 1, 2, 1>>, <<3, 4, 6, 6>>}

EndTopLogProbs == {<<-1, -2, -1, -2>>, <<-1, -1, -3, -1>>}

ClsLogits == {-1, 1}

PointerResults(f) ==
    {[unique_id |-> f.unique_id,
      start_top_log_probs |-> <<-1, -2>>,
      start_top_index |-> si,
      end_top_log_probs |-> ep,
      end_top_index |-> ei,
      cls_logits |-> cl]
        : si \in StartTopIndexes, ei \in EndTopIndexes, ep \in EndTopLogProbs,
          cl \in ClsLogits}

\* the lists with one result per Feature, in Feature order
RECURSIVE FullResultLists(_, _, _)
FullResultLists(head, fs, n) ==
    IF n = 0
    THEN {<< >>}
    ELSE {Append(l, r) : l \in FullResultLists(head, fs, n - 1),
                         r \in (IF head = "standard"
                                THEN StandardResults(fs[n])
                                ELSE PointerResults(fs[n]))}

Without(l, k) == SubSeq(l, 1, k - 1) \o SubSeq(l, k + 1, Len(l))

\* all_results: complete, or with the result of one Feature missing
ResultLists(head, fs) ==
    LET full == FullResultLists(head, fs, Len(fs))
    IN  full \cup {Without(l, k) : l \in full, k \in 1..Len(fs)}

InitDec ==
    /\ pc = "decode"
    /\ cfg \in DecConfigs
    /\ examples = cfg.dataset
    /\ example_index = 0
    /\ NoExampleLocals
    /\ features = ConvertExamples(cfg, examples, Len(examples))
    /\ unique_id = FirstUniqueId + Len(features)
    /\ all_results \in ResultLists(cfg.head, features)
    /\ all_predictions = << >>
    /\ all_nbest_json = << >>
    /\ scores_diff_json = << >>
    /\ cand = << >>
    /\ files = {}
    /\ returned = << >>
    /\ ias = << >>
    /\ NoTraining

\* d[key] = value
Put(d, key, value) == [k \in DOMAIN d \cup {key} |-> IF k = key THEN value ELSE d[k]]

StoreExampleSkipping(r, ex) ==
    /\ all_predictions' =
           Put(all_predictions, ex.qas_id, IF r.err = "none" THEN r.prediction ELSE EmptyText)
    /\ all_nbest_json' =
           Put(all_nbest_json, ex.qas_id, IF r.err = "none" THEN r.nbest ELSE << >>)
    /\ scores_diff_json' = scores_diff_json
    /\ cand' = Append(cand, IF r.err = "none" THEN r.prelim ELSE << >>)
    /\ example_index' = example_index + 1
    /\ pc' = "decode"

\* the end of one pass of the loop over the examples: the exception leaves the
\* function, or the three dicts get the example's entries
StoreExample(r, ex) ==
    IF r.err # "none"
    THEN /\ pc' = r.err
         /\ UNCHANGED <<all_predictions, all_nbest_json, scores_diff_json, cand,
                        example_index>>
    ELSE /\ all_predictions' = Put(all_predictions, ex.qas_id, r.prediction)
         /\ all_nbest_json' = Put(all_nbest_json, ex.qas_id, r.nbest)
         /\ scores_diff_json' =
                IF cfg.head = "pointer" \/ cfg.version_2_with_negative
                THEN Put(scores_diff_json, ex.qas_id, r.score_diff)
                ELSE scores_diff_json
         /\ cand' = Append(cand, r.prelim)
         /\ example_index' = example_index + 1
         /\ pc' = "decode"

\* write_predictions, lines 613-768: one pass of the loop over the examples
DecodeExample ==
    /\ pc = "decode"
    /\ cfg.head = "standard"
    /\ example_index < Len(examples)
    /\ StoreExample(DecodeStandard(cfg, FeaturesOf(features, example_index), all_results),
                    examples[example_index + 1])
    /\ UNCHANGED <<cfg, examples, query_tokens, all_doc_tokens, tok_to_orig_index,
                   orig_to_tok_index, tok_start_position, tok_end_position, doc_spans,
                   start_offset, doc_span_index, features, unique_id, all_results,
                   files, returned, ias, trainVars>>

\* write_predictions_extended, lines 815-945: one pass of the loop over the examples
DecodeExampleExtended ==
    /\ pc = "decode"
    /\ cfg.head = "pointer"
    /\ example_index < Len(examples)
    /\ StoreExample(DecodeExtended(cfg, FeaturesOf(features, example_index), all_results),
                    examples[example_index + 1])
    /\ UNCHANGED <<cfg, examples, query_tokens, all_doc_tokens, tok_to_orig_index,
                   orig_to_tok_index, tok_start_position, tok_end_position, doc_spans,
                   start_offset, doc_span_index, features, unique_id, all_results,
                   files, returned, ias, trainVars>>

\* the files written after the loop, lines 770-778 / 947-955
OutputFiles ==
    {<<"predictions", all_predictions>>, <<"nbest", all_nbest_json>>}
        \cup (IF cfg.version_2_with_negative
              THEN {<<"null_odds", scores_diff_json>>}
              ELSE {})

\* write_predictions, lines 770-780
WritePredictions ==
    /\ pc = "decode"
    /\ cfg.head = "standard"
    /\ example_index = Len(examples)
    /\ files' = OutputFiles
    /\ returned' = <<all_predictions>>
    /\ pc' = "done"
    /\ UNCHANGED <<cfg, fbVars, all_results, all_predictions, all_nbest_json,
                   scores_diff_json, cand, ias, trainVars>>

\* write_predictions_extended, lines 947-968: the files are written and the
\* metrics of the threshold search over all_predictions are returned
WritePredictionsExtended ==
    /\ pc = "decode"
    /\ cfg.head = "pointer"
    /\ example_index = Len(examples)
    /\ files' = OutputFiles
    /\ returned' = <<"out_eval">>
    /\ pc' = "done"
    /\ UNCHANGED <<cfg, fbVars, all_results, all_predictions, all_nbest_json,
                   scores_diff_json, cand, ias, trainVars>>

NextDec ==
    \/ DecodeExample
    \/ DecodeExampleExtended
    \/ WritePredictions
    \/ WritePredictionsExtended

SpecDec == InitDec /\ [][NextDec]_vars

(***************************************************************************)
(* Texts character by character.  A text is a sequence of one-character    *)
(* strings.  Lower-case and upper-case letters, the blank, punctuation     *)
(* marks and "~", which stands for a control character such as U+0000.     *)
(***************************************************************************)
Whitespace == {" "}

\* string.punctuation (line 1181), as far as the texts of the model go
Punctuation == {".", ","}

ControlChars == {"~"}

\* str.lower, one character at a time
LowerChar(ch) ==
    CASE ch = "A" -> "a"
      [] ch = "B" -> "b"
      [] ch = "T" -> "t"
      [] ch = "J" -> "j"
      [] OTHER -> ch

Lower(text) == [i \in 1..Len(text) |-> LowerChar(text[i])]

\* str.split(): the maximal runs without whitespace, from character i on; cur
\* is the run being read
RECURSIVE SplitFrom(_, _, _)
SplitFrom(text, i, cur) ==
    IF i > Len(text)
    THEN IF cur = << >> THEN << >> ELSE <<cur>>
    ELSE IF text[i] \in Whitespace
         THEN (IF cur = << >> THEN << >> ELSE <<cur>>) \o SplitFrom(text, i + 1, << >>)
         ELSE SplitFrom(text, i + 1, Append(cur, text[i]))

Split(text) == SplitFrom(text, 1, << >>)

\* " ".join(words)
RECURSIVE JoinWords(_)
JoinWords(words) ==
    IF words = << >>
    THEN << >>
    ELSE IF Len(words) = 1
         THEN words[1]
         ELSE words[1] \o <<" ">> \o JoinWords(Tail(words))

\* BasicTokenizer.tokenize of the tokenizer library, as line 1068 uses it:
\* control characters are dropped, the text is lower-cased when do_lower_case,
\* split at whitespace, and every punctuation mark becomes a token of its own
RECURSIVE SplitPunctuation(_, _, _)
SplitPunctuation(word, i, cur) ==
    IF i > Len(word)
    THEN IF cur = << >> THEN << >> ELSE <<cur>>
    ELSE IF word[i] \in Punctuation
         THEN (IF cur = << >> THEN << >> ELSE <<cur>>) \o <<<<word[i]>>>>
                  \o SplitPunctuation(word, i + 1, << >>)
         ELSE SplitPunctuation(word, i + 1, Append(cur, word[i]))

BasicTokenize(text, do_lower_case) ==
    LET cleaned == SelectSeq(text, LAMBDA ch : ch \notin ControlChars)
        cased == IF do_lower_case THEN Lower(cleaned) ELSE cleaned
        words == Split(cased)
    IN  Flatten([w \in 1..Len(words) |-> SplitPunctuation(words[w], 1, << >>)])

\* str.find: the 0-based index of the first occurrence, -1 if there is none
Find(text, sub) ==
    LET at == {i \in 0..(Len(text) - Len(sub)) : SubSeq(text, i + 1, i + Len(sub)) = sub}
    IN  IF at = {} THEN -1 ELSE CHOOSE i \in at : \A j \in at : i <= j

\* _strip_spaces, lines 1051-1060: ns_text and ns_to_s_map (0-based both ways)
NonSpaceIndexes(text) == {i \in 0..(Len(text) - 1) : text[i + 1] # " "}

StripSpaces(text) ==
    LET kept == NonSpaceIndexes(text)
        rank(i) == Cardinality({j \in kept : j < i})
    IN  [ns_text |-> SelectSeq(text, LAMBDA ch : ch # " "),
         ns_to_s_map |-> [n \in 0..(Cardinality(kept) - 1) |->
                             CHOOSE i \in kept : rank(i) = n]]

\* lines 1089-1091: the inverse of tok_ns_to_s_map
TokSToNsMap(tok_text) ==
    LET kept == NonSpaceIndexes(tok_text)
    IN  [i \in kept |-> Cardinality({j \in kept : j < i})]

\* lines 1094-1097 and 1105-1108: a position of tok_text carried over to
\* orig_text, None if one of the two maps lacks it
Project(position, tok_s_to_ns_map, orig_ns_to_s_map) ==
    IF position \in DOMAIN tok_s_to_ns_map
    THEN IF tok_s_to_ns_map[position] \in DOMAIN orig_ns_to_s_map
         THEN orig_ns_to_s_map[tok_s_to_ns_map[position]]
         ELSE None
    ELSE None

GetFinalTextPredOnMiss(pred_text, orig_text, do_lower_case) ==
    LET tok_text == JoinWords(BasicTokenize(orig_text, do_lower_case))
        start_position == Find(tok_text, pred_text)
        end_position == start_position + Len(pred_text) - 1
        orig == StripSpaces(orig_text)
        tok == StripSpaces(tok_text)
        orig_start_position == Project(start_position, TokSToNsMap(tok_text),
                                       orig.ns_to_s_map)
        orig_end_position == Project(end_position, TokSToNsMap(tok_text), orig.ns_to_s_map)
    IN  IF start_position = -1
        THEN pred_text
        ELSE IF Len(orig.ns_text) # Len(tok.ns_text)
             THEN pred_text
             ELSE IF orig_start_position = None
                  THEN orig_text
                  ELSE IF orig_end_position = None
                       THEN orig_text
                       ELSE PySlice(orig_text, orig_start_position, orig_end_position + 1)

\* get_final_text, lines 1023-1116
GetFinalText(pred_text, orig_text, do_lower_case) ==
    LET tok_text == JoinWords(BasicTokenize(orig_text, do_lower_case))
        start_position == Find(tok_text, pred_text)
        end_position == start_position + Len(pred_text) - 1
        orig == StripSpaces(orig_text)
        tok == StripSpaces(tok_text)
        orig_start_position == Project(start_position, TokSToNsMap(tok_text),
                                       orig.ns_to_s_map)
        orig_end_position == Project(end_position, TokSToNsMap(tok_text), orig.ns_to_s_map)
    IN  IF start_position = -1
        THEN orig_text
        ELSE IF Len(orig.ns_text) # Len(tok.ns_text)
             THEN orig_text
             ELSE IF orig_start_position = None
                  THEN orig_text
                  ELSE IF orig_end_position = None
                       THEN orig_text
                       ELSE PySlice(orig_text, orig_start_position, orig_end_position + 1)

(***************************************************************************)
(* get_final_text on its own: the arguments are drawn in the initial       *)
(* state and the function is applied.                                      *)
(***************************************************************************)
\* longest orig_text and pred_text, in characters
MaxOrigLen == 3

MaxPredLen == 2

TextChars == {"a", "A", " ", ".", "~"}

NoBuilding ==
    /\ examples = << >>
    /\ example_index = 0
    /\ NoExampleLocals
    /\ features = << >>
    /\ unique_id = FirstUniqueId

InitGFT ==
    /\ pc = "get_final_text"
    /\ \E o \in SeqsUpTo(TextChars, MaxOrigLen), p \in SeqsUpTo(TextChars, MaxPredLen),
          lc \in BOOLEAN :
            cfg = [pred_text |-> p, orig_text |-> o, do_lower_case |-> lc]
    /\ NoBuilding
    /\ NoDecoding
    /\ ias = << >>
    /\ NoTraining

GetFinalTextCall ==
    /\ pc = "get_final_text"
    /\ returned' = <<GetFinalText(cfg.pred_text, cfg.orig_text, cfg.do_lower_case)>>
    /\ pc' = "returned"
    /\ UNCHANGED <<cfg, fbVars, all_results, all_predictions, all_nbest_json,
                   scores_diff_json, cand, files, ias, trainVars>>

NextGFT == GetFinalTextCall

SpecGFT == InitGFT /\ [][NextGFT]_vars

(***************************************************************************)
(* _check_is_max_context on its own: a list of DocSpans, an index and a    *)
(* position are drawn in the initial state and the function is applied.    *)
(***************************************************************************)
\* most DocSpans in a list given to _check_is_max_context on its own
MaxListedSpans == 2

\* short spans, and the two last spans of the sliding window over 110 tokens
\* with budget 107 and stride 103, and over 215 tokens with budget 211 and
\* stride 204
ListedSpans ==
    {[start |-> st, length |-> ln] : st \in 0..2, ln \in 0..3}
        \cup {[start |-> 0, length |-> 107], [start |-> 103, length |-> 7],
              [start |-> 0, length |-> 211], [start |-> 204, length |-> 11]}

ListedPositions == (0..4) \cup {104, 105, 208, 209}

InitCMC ==
    /\ pc = "_check_is_max_context"
    /\ \E l \in SeqsUpTo(ListedSpans, MaxListedSpans), p \in ListedPositions :
          \E i \in 0..Len(l) :
              cfg = [doc_spans |-> l, cur_span_index |-> i, position |-> p]
    /\ NoBuilding
    /\ NoDecoding
    /\ ias = << >>
    /\ NoTraining

CheckIsMaxContextCall ==
    /\ pc = "_check_is_max_context"
    /\ returned' = <<CheckIsMaxContext(cfg.doc_spans, cfg.cur_span_index, cfg.position)>>
    /\ pc' = "returned"
    /\ UNCHANGED <<cfg, fbVars, all_results, all_predictions, all_nbest_json,
                   scores_diff_json, cand, files, ias, trainVars>>

NextCMC == CheckIsMaxContextCall

SpecCMC == InitCMC /\ [][NextCMC]_vars

(***************************************************************************)
(* train, lines 99-213: the loop over the epochs and the batches.  The     *)
(* forward and backward passes, the logging, the evaluation and the        *)
(* checkpoints of lines 157-205 read global_step and leave the counters of *)
(* the loops alone.  num_train_epochs is the value returned at line 126.   *)
(***************************************************************************)
\* largest max_steps, gradient_accumulation_steps, len(train_data_set) and
\* num_train_epochs of a call of train
MaxMaxSteps == 2
MaxAccumulationSteps == 2
MaxBatches == 4
MaxEpochs == 3

TrainArgs ==
    {[max_steps |-> ms, gradient_accumulation_steps |-> g, num_batches |-> b,
      num_train_epochs |-> e]
        : ms \in {-1} \cup (1..MaxMaxSteps), g \in 1..MaxAccumulationSteps,
          b \in 0..MaxBatches, e \in 0..MaxEpochs}

\* the test of lines 206 and 209
MaxStepsPassed(max_steps, gs) == 0 < max_steps /\ max_steps < gs

InitTrain ==
    /\ pc = "train_iterator"
    /\ cfg \in TrainArgs
    /\ examples = << >>
    /\ example_index = 0
    /\ NoExampleLocals
    /\ features = << >>
    /\ unique_id = FirstUniqueId
    /\ NoDecoding
    /\ ias = << >>
    /\ NoTraining

\* lines 154-155: the next epoch begins
BeginEpoch ==
    /\ pc = "train_iterator"
    /\ epoch < cfg.num_train_epochs
    /\ epoch' = epoch + 1
    /\ step' = 0
    /\ pc' = "epoch_iterator"
    /\ UNCHANGED <<cfg, fbVars, decVars, ias, global_step>>

\* lines 156-208: one batch; an optimizer step at every
\* gradient_accumulation_steps-th batch of the epoch, then the test of line 206
TrainBatch ==
    /\ pc = "epoch_iterator"
    /\ step < cfg.num_batches
    /\ LET gs == IF (step + 1) % cfg.gradient_accumulation_steps = 0
                 THEN global_step + 1
                 ELSE global_step
       IN  /\ global_step' = gs
           /\ IF MaxStepsPassed(cfg.max_steps, gs)
              THEN pc' = "epoch_end" /\ step' = step
              ELSE pc' = "epoch_iterator" /\ step' = step + 1
    /\ UNCHANGED <<cfg, fbVars, decVars, ias, epoch>>

\* line 156: the batches of the epoch are exhausted
EndBatches ==
    /\ pc = "epoch_iterator"
    /\ ~(step < cfg.num_batches)
    /\ pc' = "epoch_end"
    /\ UNCHANGED <<cfg, fbVars, decVars, ias, trainVars>>

\* lines 209-211: the test after the epoch
EndEpoch ==
    /\ pc = "epoch_end"
    /\ pc' = IF MaxStepsPassed(cfg.max_steps, global_step)
             THEN "trained"
             ELSE "train_iterator"
    /\ UNCHANGED <<cfg, fbVars, decVars, ias, trainVars>>

\* line 213: the epochs are exhausted
EndTrain ==
    /\ pc = "train_iterator"
    /\ ~(epoch < cfg.num_train_epochs)
    /\ pc' = "trained"
    /\ UNCHANGED <<cfg, fbVars, decVars, ias, trainVars>>

NextTrain ==
    \/ BeginEpoch
    \/ TrainBatch
    \/ EndBatches
    \/ EndEpoch
    \/ EndTrain

SpecTrain == InitTrain /\ [][NextTrain]_vars

(***************************************************************************)
(* Fractions: Python's floats are modelled by exact fractions <<n, d>>     *)
(* with d > 0, kept in lowest terms.                                       *)
(***************************************************************************)
Abs(n) == IF n < 0 THEN -n ELSE n

RECURSIVE Gcd(_, _)
Gcd(a, b) == IF b = 0 THEN a ELSE Gcd(b, a % b)

Frac(n, d) ==
    LET g == Gcd(Abs(n), Abs(d))
        sign == IF d < 0 THEN -1 ELSE 1
    IN  <<sign * (n \div g), sign * (d \div g)>>

FracAdd(x, y) == Frac(x[1] * y[2] + y[1] * x[2], x[2] * y[2])

FracMul(x, y) == Frac(x[1] * y[1], x[2] * y[2])

\* x / y for y # 0
FracDiv(x, y) == Frac(x[1] * y[2], x[2] * y[1])

FracLess(x, y) == x[1] * y[2] < y[1] * x[2]

(***************************************************************************)
(* The answer scores: normalize_answer, compute_exact, compute_f1.         *)
(***************************************************************************)
\* the characters of \w: neither whitespace nor punctuation nor control
IsWordChar(ch) == ch \notin (Whitespace \cup Punctuation \cup ControlChars)

\* the alternatives of the regular expression of line 1176
Articles == {<<"a">>, <<"a", "n">>, <<"t", "h", "e">>}

\* lines 1180-1182
RemovePunc(text) == SelectSeq(text, LAMBDA ch : ch \notin Punctuation)

\* lines 1175-1177: every maximal run of word characters that is an article
\* becomes one blank; cur is the run being read, from character i on
RECURSIVE RemoveArticlesFrom(_, _, _)
RemoveArticlesFrom(text, i, cur) ==
    LET flushed == IF cur \in Articles THEN <<" ">> ELSE cur
    IN  IF i > Len(text)
        THEN flushed
        ELSE IF IsWordChar(text[i])
             THEN RemoveArticlesFrom(text, i + 1, Append(cur, text[i]))
             ELSE flushed \o <<text[i]>> \o RemoveArticlesFrom(text, i + 1, << >>)

RemoveArticles(text) == RemoveArticlesFrom(text, 1, << >>)

\* lines 1178-1179
WhiteSpaceFix(text) == JoinWords(Split(text))

NormalizeAnswerArticlesFirst(s) == WhiteSpaceFix(RemovePunc(RemoveArticles(Lower(s))))

\* normalize_answer, lines 1173-1185
NormalizeAnswer(s) == WhiteSpaceFix(RemoveArticles(RemovePunc(Lower(s))))

\* get_tokens, lines 1207-1209
GetTokens(s) == IF s = << >> THEN << >> ELSE Split(NormalizeAnswer(s))

\* compute_exact, lines 1187-1188
ComputeExact(a_gold, a_pred) ==
    IF NormalizeAnswer(a_gold) = NormalizeAnswer(a_pred) THEN 1 ELSE 0

\* collections.Counter(toks)[tok]
CountOf(toks, tok) == Cardinality({i \in 1..Len(toks) : toks[i] = tok})

RECURSIVE SumOver(_, _)
SumOver(S, f) ==
    IF S = {} THEN 0 ELSE LET x == CHOOSE x \in S : TRUE IN f[x] + SumOver(S \ {x}, f)

\* lines 1195-1196: the size of the intersection of the two Counters
NumSame(gold_toks, pred_toks) ==
    LET toks == {gold_toks[i] : i \in 1..Len(gold_toks)}
    IN  SumOver(toks, [t \in toks |-> Min(CountOf(gold_toks, t), CountOf(pred_toks, t))])

ComputeF1HalfHarmonic(a_gold, a_pred) ==
    LET gold_toks == GetTokens(a_gold)
        pred_toks == GetTokens(a_pred)
        num_same == NumSame(gold_toks, pred_toks)
        precision == Frac(num_same, Len(pred_toks))
        recall == Frac(num_same, Len(gold_toks))
    IN  IF Len(gold_toks) = 0 \/ Len(pred_toks) = 0
        THEN Frac(IF gold_toks = pred_toks THEN 1 ELSE 0, 1)
        ELSE IF num_same = 0
             THEN Frac(0, 1)
             ELSE FracDiv(FracMul(precision, recall), FracAdd(precision, recall))

\* compute_f1, lines 1192-1205
ComputeF1(a_gold, a_pred) ==
    LET gold_toks == GetTokens(a_gold)
        pred_toks == GetTokens(a_pred)
        num_same == NumSame(gold_toks, pred_toks)
        precision == Frac(num_same, Len(pred_toks))
        recall == Frac(num_same, Len(gold_toks))
    IN  IF Len(gold_toks) = 0 \/ Len(pred_toks) = 0
        THEN Frac(IF gold_toks = pred_toks THEN 1 ELSE 0, 1)
        ELSE IF num_same = 0
             THEN Frac(0, 1)
             ELSE FracDiv(FracMul(Frac(2, 1), FracMul(precision, recall)),
                          FracAdd(precision, recall))

(***************************************************************************)
(* compute_exact and compute_f1 on their own, called as lines 1136-1137    *)
(* call them: the two texts are drawn in the initial state.                *)
(***************************************************************************)
\* longest text given to the answer scores, in characters
MaxTextLen == 3

AnswerChars == {"a", "b", "B", " ", "."}

\* the texts of the scenario "The Japan."
TheJapanDot == <<"T", "h", "e", " ", "J", "a", "p", "a", "n", ".">>

TheJapan == <<"t", "h", "e", " ", "j", "a", "p", "a", "n">>

Japan == <<"J", "a", "p", "a", "n">>

AnswerTexts == SeqsUpTo(AnswerChars, MaxTextLen) \cup {TheJapanDot, TheJapan, Japan}

SwapCase(ch) ==
    CASE ch = "a" -> "A"
      [] ch = "b" -> "B"
      [] ch = "t" -> "T"
      [] ch = "j" -> "J"
      [] OTHER -> LowerChar(ch)

\* x with the sequence ins put in after its first k characters
Inserted(x, k, ins) == SubSeq(x, 1, k) \o ins \o SubSeq(x, k + 1, Len(x))

\* the texts that differ from x in the case of one letter
CaseVariants(x) ==
    {[x EXCEPT ![i] = SwapCase(x[i])] : i \in 1..Len(x)}

\* ... by one more punctuation mark
PunctuationVariants(x) ==
    {Inserted(x, k, <<m>>) : k \in 0..Len(x), m \in Punctuation}

\* ... by one more blank at an end or next to a blank
SpacingVariants(x) ==
    {Inserted(x, k, <<" ">>) :
        k \in {j \in 0..Len(x) : \/ j = 0
                                 \/ j = Len(x)
                                 \/ x[j] = " "
                                 \/ x[j + 1] = " "}}

\* ... by one more article standing as a word of its own
ArticleVariants(x) ==
    {Inserted(x, k, a \o <<" ">>) :
        k \in {j \in 0..Len(x) : j = 0 \/ x[j] = " "},
        a \in Articles \cup {<<"A">>, <<"T", "h", "e">>}}
      \cup {x \o <<" ">> \o a : a \in Articles}

Variants(x) ==
    CaseVariants(x) \cup PunctuationVariants(x) \cup SpacingVariants(x)
        \cup ArticleVariants(x)

InitScores ==
    /\ pc = "compute_exact"
    /\ \E g \in AnswerTexts :
          \E p \in {g} \cup Variants(g) \cup SeqsUpTo(AnswerChars, 1)
                       \cup (IF g = TheJapan THEN {Japan} ELSE {}) :
              cfg = [a_gold |-> g, a_pred |-> p]
    /\ NoBuilding
    /\ NoDecoding
    /\ ias = << >>
    /\ NoTraining

\* line 1136
ComputeExactCall ==
    /\ pc = "compute_exact"
    /\ returned' = <<ComputeExact(cfg.a_gold, cfg.a_pred)>>
    /\ pc' = "compute_f1"
    /\ UNCHANGED <<cfg, fbVars, all_results, all_predictions, all_nbest_json,
                   scores_diff_json, cand, files, ias, trainVars>>

\* line 1137
ComputeF1Call ==
    /\ pc = "compute_f1"
    /\ returned' = Append(returned, ComputeF1(cfg.a_gold, cfg.a_pred))
    /\ pc' = "returned"
    /\ UNCHANGED <<cfg, fbVars, all_results, all_predictions, all_nbest_json,
                   scores_diff_json, cand, files, ias, trainVars>>

NextScores ==
    \/ ComputeExactCall
    \/ ComputeF1Call

SpecScores == InitScores /\ [][NextScores]_vars

(***************************************************************************)
(* _compute_softmax.  The scores are integers; math.exp is modelled by the *)
(* powers of ExpBase, which stands for e: positive, increasing, 1 at 0.    *)
(***************************************************************************)
ExpBase == 3

RECURSIVE Power(_, _)
Power(b, n) == IF n = 0 THEN 1 ELSE b * Power(b, n - 1)

\* math.exp(x) for an integer x
Exp(x) == IF x >= 0 THEN Frac(Power(ExpBase, x), 1) ELSE Frac(1, Power(ExpBase, -x))

RECURSIVE FracSum(_)
FracSum(l) == IF l = << >> THEN Frac(0, 1) ELSE FracAdd(l[1], FracSum(Tail(l)))

\* lines 1155-1158
MaxScore(scores) ==
    CHOOSE m \in {scores[i] : i \in 1..Len(scores)} :
        \A i \in 1..Len(scores) : scores[i] <= m

ComputeSoftmaxUnnormalized(scores) ==
    IF scores = << >>
    THEN << >>
    ELSE [i \in 1..Len(scores) |-> Exp(scores[i] - MaxScore(scores))]

\* _compute_softmax, lines 1150-1170
ComputeSoftmax(scores) ==
    IF scores = << >>
    THEN << >>
    ELSE LET max_score == MaxScore(scores)
             exp_scores == [i \in 1..Len(scores) |-> Exp(scores[i] - max_score)]
             total_sum == FracSum(exp_scores)
         IN  [i \in 1..Len(exp_scores) |-> FracDiv(exp_scores[i], total_sum)]

\* longest list of scores given to _compute_softmax on its own
MaxScores == 3

ScoreValues == {-2, -1, 0, 1, 2}

InitSoftmax ==
    /\ pc = "_compute_softmax"
    /\ \E l \in SeqsUpTo(ScoreValues, MaxScores) : cfg = [scores |-> l]
    /\ NoBuilding
    /\ NoDecoding
    /\ ias = << >>
    /\ NoTraining

ComputeSoftmaxCall ==
    /\ pc = "_compute_softmax"
    /\ returned' = <<ComputeSoftmax(cfg.scores)>>
    /\ pc' = "returned"
    /\ UNCHANGED <<cfg, fbVars, all_results, all_predictions, all_nbest_json,
                   scores_diff_json, cand, files, ias, trainVars>>

NextSoftmax == ComputeSoftmaxCall

SpecSoftmax == InitSoftmax /\ [][NextSoftmax]_vars

(***************************************************************************)
(* The scoring of lines 957-966: get_raw_scores, make_qid_to_has_ans and   *)
(* find_all_best_thresh_v2.  The dataset is the list of its qas, each with *)
(* its id and the texts of its answers; preds is a dict; na_probs is a     *)
(* dict given as the list of its (qid, value) items in insertion order.    *)
(***************************************************************************)
DatasetIds(dataset) == {dataset[i].id : i \in 1..Len(dataset)}

\* the last qa of the dataset with this id
QaOf(dataset, qid) ==
    dataset[CHOOSE i \in 1..Len(dataset) :
                /\ dataset[i].id = qid
                /\ \A j \in (i + 1)..Len(dataset) : dataset[j].id # qid]

\* lines 1126-1130
GoldAnswers(qa) ==
    LET kept == SelectSeq(qa.answers, LAMBDA a : NormalizeAnswer(a) # << >>)
    IN  IF kept = << >> THEN <<EmptyText>> ELSE kept

\* max() of a non-empty list of fractions
FracMax(l) ==
    l[CHOOSE i \in 1..Len(l) : \A j \in 1..Len(l) : ~FracLess(l[i], l[j])]

\* get_raw_scores, lines 1119-1138: exact_scores and f1_scores
GetRawScores(dataset, preds) ==
    LET scored == DatasetIds(dataset) \cap DOMAIN preds
        gold(qid) == GoldAnswers(QaOf(dataset, qid))
    IN  [exact |-> [qid \in scored |->
                       FracMax([a \in 1..Len(gold(qid)) |->
                                   Frac(ComputeExact(gold(qid)[a], preds[qid]), 1)])],
         f1 |-> [qid \in scored |->
                    FracMax([a \in 1..Len(gold(qid)) |->
                                ComputeF1(gold(qid)[a], preds[qid])])]]

\* make_qid_to_has_ans, lines 1141-1147
MakeQidToHasAns(dataset) ==
    [qid \in DatasetIds(dataset) |-> QaOf(dataset, qid).answers # << >>]

\* sorted(l, key): stable and ascending; keys[i] is the key of l[i]
SortedAsc(l, keys) ==
    [p \in 1..Len(l) |->
        l[CHOOSE i \in 1..Len(l) :
              Cardinality({j \in 1..Len(keys) : keys[j] < keys[i]})
                  + Cardinality({j \in 1..(i - 1) : keys[j] = keys[i]}) + 1 = p]]

\* line 997: the qids of na_probs by ascending value
QidList(na_probs) ==
    SortedAsc([i \in 1..Len(na_probs) |-> na_probs[i][1]],
              [i \in 1..Len(na_probs) |-> na_probs[i][2]])

\* na_probs[qid]
NaProbOf(na_probs, qid) ==
    na_probs[CHOOSE i \in 1..Len(na_probs) : na_probs[i][1] = qid][2]

\* lines 1001-1006, with 1 where line 1006 has 0
DiffRewardingNoAnswer(preds, scores, qid_to_has_ans, qid) ==
    IF qid_to_has_ans[qid]
    THEN scores[qid]
    ELSE IF preds[qid] # EmptyText THEN Frac(-1, 1) ELSE Frac(1, 1)

\* lines 1000-1006: what a question adds to the running total
Diff(preds, scores, qid_to_has_ans, qid) ==
    IF qid_to_has_ans[qid]
    THEN scores[qid]
    ELSE IF preds[qid] # EmptyText THEN Frac(-1, 1) ELSE Frac(0, 1)

\* lines 998-1010: the loop from the i-th qid on; st is
\* [cur_score, best_score, best_thresh]
RECURSIVE Sweep(_, _, _, _, _, _, _)
Sweep(preds, scores, na_probs, qid_to_has_ans, qid_list, i, st) ==
    IF i > Len(qid_list)
    THEN st
    ELSE LET qid == qid_list[i]
         IN  IF qid \notin DOMAIN scores
             THEN Sweep(preds, scores, na_probs, qid_to_has_ans, qid_list, i + 1, st)
             ELSE LET cur_score ==
                          FracAdd(st.cur_score, Diff(preds, scores, qid_to_has_ans, qid))
                  IN  Sweep(preds, scores, na_probs, qid_to_has_ans, qid_list, i + 1,
                            IF FracLess(st.best_score, cur_score)
                            THEN [cur_score |-> cur_score, best_score |-> cur_score,
                                  best_thresh |-> NaProbOf(na_probs, qid)]
                            ELSE [st EXCEPT !.cur_score = cur_score])

\* find_best_thresh_v2, lines 992-1020.  err names the exception raised
FindBestThreshV2(preds, scores, na_probs, qid_to_has_ans) ==
    LET num_no_ans == Cardinality({k \in DOMAIN qid_to_has_ans : ~qid_to_has_ans[k]})
        qid_list == QidList(na_probs)
        st == Sweep(preds, scores, na_probs, qid_to_has_ans, qid_list, 1,
                    [cur_score |-> Frac(num_no_ans, 1), best_score |-> Frac(num_no_ans, 1),
                     best_thresh |-> 0])
        has_ans == SelectSeq(qid_list, LAMBDA qid : qid_to_has_ans[qid])
        has_ans_cnt == Len(has_ans)
        counted == SelectSeq(has_ans, LAMBDA qid : qid \in DOMAIN scores)
        has_ans_score == FracSum([k \in 1..Len(counted) |-> scores[counted[k]]])
    IN  IF \E k \in 1..Len(qid_list) : qid_list[k] \notin DOMAIN qid_to_has_ans
        THEN [err |-> "KeyError"]
        ELSE IF Cardinality(DOMAIN scores) = 0 \/ has_ans_cnt = 0
             THEN [err |-> "ZeroDivisionError"]
             ELSE [err |-> "none",
                   best |-> FracDiv(FracMul(Frac(100, 1), st.best_score),
                                    Frac(Cardinality(DOMAIN scores), 1)),
                   thresh |-> st.best_thresh,
                   has_ans |-> FracDiv(has_ans_score, Frac(has_ans_cnt, 1))]

\* most questions of a dataset given to the scoring
MaxQuestions == 2

QuestionIds == 1..MaxQuestions

\* the answers of a qa: none, one of two words, or two
GoldAnswerLists == {<< >>, <<<<"b", " ", "c">>>>, <<<<"b">>, <<"b", " ", "c">>>>}

PredictedTexts == {EmptyText, <<"b">>}

NaProbValues == {0, 1}

\* the elements of a set of integers in ascending order
RECURSIVE Ascending(_)
Ascending(S) ==
    IF S = {}
    THEN << >>
    ELSE LET m == CHOOSE m \in S : \A x \in S : m <= x IN <<m>> \o Ascending(S \ {m})

Datasets ==
    UNION {{[i \in 1..Cardinality(ids) |-> [id |-> Ascending(ids)[i], answers |-> g[i]]]
               : g \in [1..Cardinality(ids) -> GoldAnswerLists]}
           : ids \in SUBSET QuestionIds}

InitEval ==
    /\ pc = "get_raw_scores"
    /\ \E d \in Datasets, ids \in SUBSET QuestionIds :
          \E pr \in [ids -> PredictedTexts], na \in [1..Cardinality(ids) -> NaProbValues] :
              cfg = [dataset |-> d, preds |-> pr,
                     na_probs |-> [i \in 1..Cardinality(ids) |-> <<Ascending(ids)[i], na[i]>>],
                     exact_raw |-> << >>, f1_raw |-> << >>, qid_to_has_ans |-> << >>,
                     exact |-> << >>]
    /\ NoBuilding
    /\ NoDecoding
    /\ ias = << >>
    /\ NoTraining

\* lines 960-963
GetRawScoresCall ==
    /\ pc = "get_raw_scores"
    /\ cfg' = [cfg EXCEPT !.exact_raw = GetRawScores(cfg.dataset, cfg.preds).exact,
                          !.f1_raw = GetRawScores(cfg.dataset, cfg.preds).f1,
                          !.qid_to_has_ans = MakeQidToHasAns(cfg.dataset)]
    /\ pc' = "find_best_exact"
    /\ UNCHANGED <<fbVars, decVars, ias, trainVars>>

\* line 982
FindBestExact ==
    /\ pc = "find_best_exact"
    /\ LET r == FindBestThreshV2(cfg.preds, cfg.exact_raw, cfg.na_probs, cfg.qid_to_has_ans)
       IN  IF r.err # "none"
           THEN pc' = r.err /\ UNCHANGED cfg
           ELSE pc' = "find_best_f1" /\ cfg' = [cfg EXCEPT !.exact = r]
    /\ UNCHANGED <<fbVars, decVars, ias, trainVars>>

\* lines 983-989 and 968: main_eval is filled and returned
FindBestF1 ==
    /\ pc = "find_best_f1"
    /\ LET r == FindBestThreshV2(cfg.preds, cfg.f1_raw, cfg.na_probs, cfg.qid_to_has_ans)
       IN  IF r.err # "none"
           THEN pc' = r.err /\ UNCHANGED returned
           ELSE /\ pc' = "returned"
                /\ returned' = <<[best_exact |-> cfg.exact.best,
                                  best_exact_thresh |-> cfg.exact.thresh,
                                  best_f1 |-> r.best,
                                  best_f1_thresh |-> r.thresh,
                                  has_ans_exact |-> cfg.exact.has_ans,
                                  has_ans_f1 |-> r.has_ans]>>
    /\ UNCHANGED <<cfg, fbVars, all_results, all_predictions, all_nbest_json,
                   scores_diff_json, cand, files, ias, trainVars>>

NextEval ==
    \/ GetRawScoresCall
    \/ FindBestExact
    \/ FindBestF1

SpecEval == InitEval /\ [][NextEval]_vars

(***************************************************************************)
(* Properties of the feature builder.                                      *)
(***************************************************************************)
\* C1: every Feature returned by _convert_examples_to_features has input_ids,
\* input_mask, segment_ids and p_mask of length exactly max_seq_length.
C1_PaddedLengths ==
    pc = "returned" =>
        \A i \in 1..Len(features) :
            /\ Len(features[i].input_ids) = cfg.max_seq_length
            /\ Len(features[i].input_mask) = cfg.max_seq_length
            /\ Len(features[i].segment_ids) = cfg.max_seq_length
            /\ Len(features[i].p_mask) = cfg.max_seq_length

\* C1 witness: features were returned, in the layout with the document first,
\* one of them padded and one of them filling max_seq_length without padding.
C1_Witness ==
    /\ pc = "returned"
    /\ cfg.sequence_a_is_doc
    /\ \E i, j \in 1..Len(features) :
          /\ Len(features[i].tokens) < cfg.max_seq_length
          /\ Len(features[j].tokens) = cfg.max_seq_length

\* the Features of the example being converted, in DocSpan order
CurrentFeatures == SelectSeq(features, LAMBDA f : f.example_index = example_index)

SpansDone == pc = "features" /\ doc_span_index = Len(doc_spans)

\* the DocSpans of the current example that cover document position p
Covering(p) == {k \in 0..(Len(doc_spans) - 1) : SpanContains(doc_spans[k + 1], p)}

\* the key of document position p in the Feature of DocSpan k
KeyOf(k, p) == Len(TokensBefore(cfg, query_tokens)) + (p - doc_spans[k + 1].start)

\* C4: every document sub-token position covered by a DocSpan has exactly one
\* DocSpan for which _check_is_max_context is true, and exactly one Feature of
\* the example has token_is_max_context true at that token.
C4_MaxContextPartition ==
    SpansDone =>
        \A p \in 0..(Len(all_doc_tokens) - 1) :
            Covering(p) # {} =>
                /\ Cardinality({k \in 0..(Len(doc_spans) - 1) :
                                    CheckIsMaxContext(doc_spans, k, p)}) = 1
                /\ Cardinality({k \in Covering(p) :
                                    CurrentFeatures[k + 1].token_is_max_context[KeyOf(k, p)]})
                       = 1

\* C4 witness: the example's Features are built and a position lies in two
\* DocSpans that score the same for it.
C4_Witness ==
    /\ SpansDone
    /\ \E p \in 0..(Len(all_doc_tokens) - 1) :
          \E k1, k2 \in Covering(p) :
              /\ k1 # k2
              /\ SpanScore(doc_spans[k1 + 1], p) = SpanScore(doc_spans[k2 + 1], p)

\* C5: for a document of L >= 1 sub-tokens, a budget B >= 1 and doc_stride >= 1
\* the DocSpans start at 0, have strictly increasing starts and lengths <= B,
\* leave no gap and end exactly at L - 1.
C5_WindowCoversDocument ==
    LET L == Len(all_doc_tokens)
        B == MaxTokensForDoc(cfg.max_seq_length, query_tokens)
    IN  (pc = "features" /\ L >= 1 /\ B >= 1 /\ cfg.doc_stride >= 1) =>
            /\ Len(doc_spans) >= 1
            /\ doc_spans[1].start = 0
            /\ \A k \in 1..(Len(doc_spans) - 1) : doc_spans[k].start < doc_spans[k + 1].start
            /\ \A k \in 1..Len(doc_spans) : doc_spans[k].length <= B
            /\ \A p \in 0..(L - 1) : Covering(p) # {}
            /\ SpanEnd(doc_spans[Len(doc_spans)]) = L - 1

\* C5 witness: the window has run over a document longer than the budget with a
\* stride larger than the budget, and a shorter last span.
C5_Witness ==
    /\ pc = "features"
    /\ Len(doc_spans) >= 3
    /\ cfg.doc_stride > MaxTokensForDoc(cfg.max_seq_length, query_tokens)
    /\ MaxTokensForDoc(cfg.max_seq_length, query_tokens) >= 1

(***************************************************************************)
(* Properties of _improve_answer_span.                                     *)
(***************************************************************************)
\* the pairs inside the input span whose sub-tokens are the tokenized answer
Matches ==
    {m \in (ias.input_start..ias.input_end) \X (ias.input_start..ias.input_end) :
        /\ m[1] <= m[2]
        /\ JoinEq(PySlice(ias.doc_tokens, m[1], m[2] + 1), Tokenize(ias.orig_answer_text))}

\* the first match in scanning order: smallest start, then largest end
FirstMatch ==
    CHOOSE m \in Matches :
        \A n \in Matches : m[1] < n[1] \/ (m[1] = n[1] /\ m[2] >= n[2])

\* C7: _improve_answer_span returns the first matching pair, scanning new_start
\* upwards and new_end downwards, or the input span when no pair matches; for
\* ( 1895 - 1943 ) . and the answer 1895 it returns the single sub-token 1895.
C7_FirstMatchingSpan ==
    pc # "improve" =>
        /\ ias.out = IF Matches = {} THEN <<ias.input_start, ias.input_end>> ELSE FirstMatch
        /\ (/\ ias.doc_tokens = ParenthesisDoc
            /\ ias.input_start = 0
            /\ ias.input_end = Len(ParenthesisDoc) - 1
            /\ ias.orig_answer_text = <<"1895">>) => ias.out = <<1, 1>>

\* C7 witness: the function was applied to a span that holds the answer twice.
C7_Witness ==
    /\ pc = "improved"
    /\ Cardinality(Matches) >= 2
    /\ ias.out # <<ias.input_start, ias.input_end>>

\* C8: applying _improve_answer_span to the span it returned (for an input span
\* with input_start <= input_end) returns that span again.
C8_Idempotent ==
    (pc = "improved_again" /\ ias.input_start <= ias.input_end) => ias.again = ias.out

\* C8 witness: the first application tightened the span, the second was made.
C8_Witness ==
    /\ pc = "improved_again"
    /\ ias.input_start <= ias.input_end
    /\ ias.out # <<ias.input_start, ias.input_end>>
    /\ ias.out[2] = Len(ias.doc_tokens) - 1

(***************************************************************************)
(* Properties of the decoders.  cand[i] is prelim_predictions of the i-th  *)
(* example decoded, all_nbest_json and all_predictions the dicts so far.   *)
(***************************************************************************)
DecodedFeatures(i) == FeaturesOf(features, i - 1)

QasId(i) == examples[i].qas_id

\* p refers to a Feature of the example, both its indices are keys of that
\* Feature's token_to_orig_map, and its span is ordered and short enough
PrelimValid(p, fs) ==
    /\ p.feature_index < Len(fs)
    /\ p.start_index \in DOMAIN fs[p.feature_index + 1].token_to_orig_map
    /\ p.end_index \in DOMAIN fs[p.feature_index + 1].token_to_orig_map
    /\ p.end_index >= p.start_index
    /\ p.end_index - p.start_index + 1 <= cfg.max_answer_length

\* C2 as stated: in write_predictions, with null-answer mode on or off, every
\* PrelimPrediction of an example's candidate list has start_index and end_index
\* among the keys of its feature's token_to_orig_map, end_index >= start_index
\* and a length of at most max_answer_length.
C2_EveryPrelimValid ==
    cfg.head = "standard" =>
        \A i \in 1..Len(cand) :
            \A k \in 1..Len(cand[i]) : PrelimValid(cand[i][k], DecodedFeatures(i))

\* C2 amended: in write_predictions every PrelimPrediction with start_index > 0
\* satisfies the four conditions; the entries with start_index = 0 are exactly
\* the one null candidate appended per example when null-answer mode is on, whose
\* indices 0 and 0 are not keys of token_to_orig_map.
C2_EveryNonNullPrelimValid ==
    cfg.head = "standard" =>
        \A i \in 1..Len(cand) :
            LET nulls == {k \in 1..Len(cand[i]) : cand[i][k].start_index = 0}
            IN  /\ \A k \in (1..Len(cand[i])) \ nulls :
                       PrelimValid(cand[i][k], DecodedFeatures(i))
                /\ Cardinality(nulls) = IF cfg.version_2_with_negative THEN 1 ELSE 0
                /\ \A k \in nulls :
                       /\ cand[i][k].end_index = 0
                       /\ \A f \in 1..Len(DecodedFeatures(i)) :
                              0 \notin DOMAIN DecodedFeatures(i)[f].token_to_orig_map

\* a candidate list with the null candidate and a two-token candidate
C2_Witness ==
    /\ cfg.head = "standard"
    /\ cfg.version_2_with_negative
    /\ \E i \in 1..Len(cand) :
          /\ \E k \in 1..Len(cand[i]) : cand[i][k].start_index = 0
          /\ \E k \in 1..Len(cand[i]) : cand[i][k].end_index = cand[i][k].start_index + 1

\* C3: in both decoders no two entries of an example's final n-best list carry
\* the same non-empty text, the forced null entry and the placeholder included.
C3_DistinctTexts ==
    \A i \in 1..Len(cand) :
        LET nbest == all_nbest_json[QasId(i)]
        IN  \A a, b \in 1..Len(nbest) :
                (a # b /\ nbest[a].text = nbest[b].text) => nbest[a].text = EmptyText

\* the text of a candidate of the i-th example
TextOf(i, p) ==
    FinalText(DecodedFeatures(i)[p.feature_index + 1], p.start_index, p.end_index)

\* the two best candidates of an example have the same text: the second was
\* passed over while the n-best list had room, and a later one with another
\* text was taken
C3_Witness ==
    \E i \in 1..Len(cand) :
        /\ Len(all_nbest_json[QasId(i)]) = 2
        /\ cfg.n_best_size = 2
        /\ \A k \in 1..Len(cand[i]) : cand[i][k].start_index > 0
        /\ Len(cand[i]) >= 3
        /\ TextOf(i, cand[i][1]) = TextOf(i, cand[i][2])
        /\ \E d \in 3..Len(cand[i]) : TextOf(i, cand[i][d]) # TextOf(i, cand[i][1])

\* the null scores start_logits[0] + end_logits[0] of the example's features
NullScores(i) ==
    {ResultOf(all_results, DecodedFeatures(i)[f].unique_id).start_logits[1]
        + ResultOf(all_results, DecodedFeatures(i)[f].unique_id).end_logits[1]
            : f \in 1..Len(DecodedFeatures(i))}

Minimum(S) == CHOOSE m \in S : \A x \in S : m <= x

\* the first entry of an n-best list with non-empty text
FirstNonEmpty(nbest) ==
    nbest[Minimum({a \in 1..Len(nbest) : nbest[a].text # EmptyText})]

\* C6: in write_predictions with null-answer mode on, the score_diff recorded
\* for an example is null_score - s - e, null_score the minimum over its features
\* of start_logits[0] + end_logits[0] and (s, e) the logits of the first n-best
\* entry with non-empty text; the prediction is "" iff score_diff exceeds
\* null_score_diff_threshold, and is that entry's text otherwise.
C6_ScoreDiffAndPrediction ==
    (cfg.head = "standard" /\ cfg.version_2_with_negative) =>
        \A i \in 1..Len(cand) :
            LET nbest == all_nbest_json[QasId(i)]
                entry == FirstNonEmpty(nbest)
                score_diff == scores_diff_json[QasId(i)]
            IN  /\ \E a \in 1..Len(nbest) : nbest[a].text # EmptyText
                /\ DecodedFeatures(i) # << >> =>
                       score_diff = Minimum(NullScores(i)) - entry.start_logit
                                                           - entry.end_logit
                /\ all_predictions[QasId(i)] = EmptyText
                       <=> score_diff > cfg.null_score_diff_threshold
                /\ ~(score_diff > cfg.null_score_diff_threshold)
                       => all_predictions[QasId(i)] = entry.text

\* an example of two features with different null scores, the later one the
\* larger, whose null score exceeds the threshold: "" is predicted although a
\* candidate with text is in the n-best list
C6_Witness ==
    /\ cfg.head = "standard"
    /\ cfg.version_2_with_negative
    /\ \E i \in 1..Len(cand) :
          /\ Len(DecodedFeatures(i)) = 2
          /\ Cardinality(NullScores(i)) = 2
          /\ LET r == ResultOf(all_results, DecodedFeatures(i)[2].unique_id)
             IN  r.start_logits[1] + r.end_logits[1] # Minimum(NullScores(i))
          /\ scores_diff_json[QasId(i)] > cfg.null_score_diff_threshold
          /\ all_predictions[QasId(i)] = EmptyText
          /\ \E k \in 1..Len(cand[i]) : cand[i][k].start_index > 0

\* every Feature has a result
CompleteResults ==
    \A k \in 1..Len(features) : features[k].unique_id \in ResultIds(all_results)

\* the (start, end) pairs of the i-th example that pass the filters
Survivors(i) ==
    LET fs == DecodedFeatures(i)
    IN  Flatten([k \in 1..Len(fs) |->
            IF cfg.head = "standard"
            THEN FeaturePrelims(fs[k], k - 1, ResultOf(all_results, fs[k].unique_id),
                                cfg.n_best_size, cfg.max_answer_length)
            ELSE FeaturePrelimsExtended(cfg, fs[k], k - 1,
                                        ResultOf(all_results, fs[k].unique_id))])

RaisedStates == {"KeyError", "IndexError", "AttributeError"}

\* C9 as stated: in both decoders, decoding an example whose candidate pairs
\* are all filtered out, one without Features included, does not raise, with
\* null-answer mode on or off: the example gets an n-best list of at least one
\* entry and an entry in the predictions.
C9_ZeroCandidatesDecoded ==
    CompleteResults =>
        /\ pc \in RaisedStates => Survivors(example_index + 1) # << >>
        /\ \A i \in 1..Len(cand) :
               Survivors(i) = << >> =>
                   /\ QasId(i) \in DOMAIN all_nbest_json
                   /\ Len(all_nbest_json[QasId(i)]) >= 1
                   /\ QasId(i) \in DOMAIN all_predictions

\* the examples one of whose Features has no result
ExamplesMissingResult ==
    {i \in 1..Len(examples) :
        \E f \in 1..Len(DecodedFeatures(i)) :
            DecodedFeatures(i)[f].unique_id \notin ResultIds(all_results)}

\* C10: if a Feature of an example has no RawResult with its unique_id, both
\* decoders fail with a lookup error when they reach it instead of skipping it:
\* the loop never gets past that example, no output file is written and nothing
\* is returned.
C10_MissingResultFails ==
    ExamplesMissingResult # {} =>
        /\ files = {}
        /\ returned = << >>
        /\ pc \in {"decode", "KeyError", "IndexError"}
        /\ example_index < Minimum(ExamplesMissingResult)
        /\ pc = "KeyError" => example_index = Minimum(ExamplesMissingResult) - 1
        /\ (pc = "decode" /\ example_index = Minimum(ExamplesMissingResult) - 1)
               => "KeyError" =
                      (IF cfg.head = "standard"
                       THEN DecodeStandard(cfg, DecodedFeatures(example_index + 1),
                                           all_results)
                       ELSE DecodeExtended(cfg, DecodedFeatures(example_index + 1),
                                           all_results)).err

\* the second example's Feature has no result: the first example's prediction
\* is in all_predictions when the lookup fails
C10_Witness ==
    /\ ExamplesMissingResult # {}
    /\ pc = "KeyError"
    /\ example_index = 1
    /\ DOMAIN all_predictions # {}
    /\ files = {}

(***************************************************************************)
(* Properties of get_final_text.                                           *)
(***************************************************************************)
\* sub is text[i:j] for some 0 <= i <= j <= len(text)
IsSubstring(sub, text) ==
    \E i \in 0..Len(text) : \E j \in i..Len(text) : sub = SubSeq(text, i + 1, j)

\* the text the tokenizer makes of orig_text, as line 1068 joins it
TokTextOf(c) == JoinWords(BasicTokenize(c.orig_text, c.do_lower_case))

\* the positions of tok_text that are not blanks: the keys of tok_s_to_ns_map
MappedPositions(c) == {i \in 0..(Len(TokTextOf(c)) - 1) : TokTextOf(c)[i + 1] # " "}

\* C11: get_final_text returns a contiguous substring of orig_text, and orig_text
\* itself when pred_text is not found in the tokenized form, when the two texts
\* without their blanks differ in length, and when the start or the end offset
\* is not a key of the index maps.  (No step of the function can raise.)
C11_FallsBackToOrigText ==
    pc = "returned" =>
        LET out == returned[1]
            found == \E i \in 0..(Len(TokTextOf(cfg)) - Len(cfg.pred_text)) :
                         \A k \in 1..Len(cfg.pred_text) :
                             TokTextOf(cfg)[i + k] = cfg.pred_text[k]
            start == Find(TokTextOf(cfg), cfg.pred_text)
            blanks(text) == Cardinality({i \in 1..Len(text) : text[i] = " "})
        IN  /\ IsSubstring(out, cfg.orig_text)
            /\ ~found => out = cfg.orig_text
            /\ Len(cfg.orig_text) - blanks(cfg.orig_text)
                   # Len(TokTextOf(cfg)) - blanks(TokTextOf(cfg)) => out = cfg.orig_text
            /\ (found /\ start \notin MappedPositions(cfg)) => out = cfg.orig_text
            /\ (found /\ start + Len(cfg.pred_text) - 1 \notin MappedPositions(cfg))
                   => out = cfg.orig_text

\* pred_text is found in the tokenized text and the lengths agree, but it
\* starts on a blank there, which no index map has: orig_text is returned
C11_Witness ==
    /\ pc = "returned"
    /\ Find(TokTextOf(cfg), cfg.pred_text) # -1
    /\ Find(TokTextOf(cfg), cfg.pred_text) \notin MappedPositions(cfg)
    /\ Len(StripSpaces(cfg.orig_text).ns_text) = Len(StripSpaces(TokTextOf(cfg)).ns_text)
    /\ cfg.pred_text # << >>

(***************************************************************************)
(* Properties of the answer scores.                                        *)
(***************************************************************************)
One == <<1, 1>>

\* C14: for every text x whose normalized form is not empty,
\* compute_exact(x, x) = 1 and compute_f1(x, x) = 1.
C14_SelfScoreIsOne ==
    (pc = "returned" /\ cfg.a_gold = cfg.a_pred /\ NormalizeAnswer(cfg.a_gold) # << >>) =>
        /\ returned[1] = 1
        /\ returned[2] = One

\* a text of two words scored against itself
C14_Witness ==
    /\ pc = "returned"
    /\ cfg.a_gold = cfg.a_pred
    /\ Len(Split(NormalizeAnswer(cfg.a_gold))) = 2
    /\ returned[2] = One

\* the words of a text once it is lower-cased and its punctuation deleted
PlainWords(s) == Split(RemovePunc(Lower(s)))

\* C15: normalize_answer lower-cases, then deletes the punctuation, then
\* replaces the words a / an / the by a blank, then collapses the whitespace:
\* its words are the words of the lower-cased text without punctuation that are
\* no articles, one blank apart; normalize_answer("The Japan.") = "japan"; two
\* texts that differ only in the case of a letter, in a punctuation mark, in an
\* article standing as a word or in the amount of whitespace get compute_exact
\* 1 and compute_f1 1.0, and so do "the japan" and "Japan".
C15_NormalizedScores ==
    pc = "returned" =>
        /\ NormalizeAnswer(cfg.a_gold)
               = JoinWords(SelectSeq(PlainWords(cfg.a_gold), LAMBDA w : w \notin Articles))
        /\ cfg.a_gold = TheJapanDot
               => NormalizeAnswer(cfg.a_gold) = <<"j", "a", "p", "a", "n">>
        /\ (cfg.a_pred \in Variants(cfg.a_gold)
               \/ (cfg.a_gold = TheJapan /\ cfg.a_pred = Japan))
               => (returned[1] = 1 /\ returned[2] = One)

\* a text with an article and a word, scored against the same text with a
\* punctuation mark added right after its first character
C15_Witness ==
    /\ pc = "returned"
    /\ cfg.a_pred \in PunctuationVariants(cfg.a_gold)
    /\ Len(PlainWords(cfg.a_gold)) = 2
    /\ Len(Split(NormalizeAnswer(cfg.a_gold))) = 1
    /\ cfg.a_pred[2] \in Punctuation
    /\ returned = <<1, One>>

(***************************************************************************)
(* Properties of _compute_softmax.                                         *)
(***************************************************************************)
\* C16: for a non-empty list of scores _compute_softmax returns a list of the
\* same length, of non-negative entries that sum to 1, entry i belonging to
\* score i: a larger score has the larger entry, equal scores equal entries.
C16_SoftmaxIsDistribution ==
    (pc = "returned" /\ cfg.scores # << >>) =>
        LET probs == returned[1]
        IN  /\ Len(probs) = Len(cfg.scores)
            /\ \A i \in 1..Len(probs) : probs[i][1] >= 0 /\ probs[i][2] > 0
            /\ FracSum(probs) = One
            /\ \A i, j \in 1..Len(probs) :
                   cfg.scores[i] < cfg.scores[j] <=> FracLess(probs[i], probs[j])

\* three scores, not all equal, the largest not first
C16_Witness ==
    /\ pc = "returned"
    /\ Len(cfg.scores) = 3
    /\ cfg.scores[1] < cfg.scores[2]
    /\ cfg.scores[3] < cfg.scores[1]
    /\ FracLess(returned[1][3], returned[1][1])

(***************************************************************************)
(* Properties of the scoring.                                              *)
(***************************************************************************)
\* the qids of na_probs
NaProbIds == {cfg.na_probs[i][1] : i \in 1..Len(cfg.na_probs)}

\* C12: when the predictions and null odds hold a question id that the
\* reference dataset lacks, the scoring skips that id and completes: it
\* raises nothing and returns its best-threshold metrics.
C12_MissingReferenceSkipped ==
    (NaProbIds \ DatasetIds(cfg.dataset) # {}) => pc # "KeyError"

\* the questions the sweep counts, in the order of the visit
Visited(scores) == SelectSeq(QidList(cfg.na_probs), LAMBDA qid : qid \in DOMAIN scores)

NumNoAns == Cardinality({k \in DOMAIN cfg.qid_to_has_ans : ~cfg.qid_to_has_ans[k]})

\* what the statement adds for a question; no_answer_right is the amount for
\* a question without gold answer for which nothing was predicted
Increment(scores, qid, no_answer_right) ==
    IF cfg.qid_to_has_ans[qid]
    THEN scores[qid]
    ELSE IF cfg.preds[qid] = EmptyText THEN Frac(no_answer_right, 1) ELSE Frac(-1, 1)

\* the running total after k questions
TotalAfter(scores, k, no_answer_right) ==
    FracAdd(Frac(NumNoAns, 1),
            FracSum([i \in 1..k |-> Increment(scores, Visited(scores)[i], no_answer_right)]))

MaximumTotal(scores, no_answer_right) ==
    FracMax([k \in 1..(Len(Visited(scores)) + 1) |->
                TotalAfter(scores, k - 1, no_answer_right)])

\* the number of questions after which the maximum is first reached
FirstMaximum(scores, no_answer_right) ==
    CHOOSE k \in 0..Len(Visited(scores)) :
        /\ TotalAfter(scores, k, no_answer_right) = MaximumTotal(scores, no_answer_right)
        /\ \A j \in 0..(k - 1) :
              TotalAfter(scores, j, no_answer_right) # MaximumTotal(scores, no_answer_right)

AscendingVisit ==
    \A i, j \in 1..Len(QidList(cfg.na_probs)) :
        i < j => NaProbOf(cfg.na_probs, QidList(cfg.na_probs)[i])
                     <= NaProbOf(cfg.na_probs, QidList(cfg.na_probs)[j])

SweepAsStated(scores, best, thresh, no_answer_right) ==
    /\ AscendingVisit
    /\ best = FracDiv(FracMul(Frac(100, 1), MaximumTotal(scores, no_answer_right)),
                      Frac(Cardinality(DOMAIN scores), 1))
    /\ thresh = IF FirstMaximum(scores, no_answer_right) = 0
                THEN 0
                ELSE NaProbOf(cfg.na_probs,
                              Visited(scores)[FirstMaximum(scores, no_answer_right)])

\* C13 as stated: find_best_thresh_v2 visits the questions by ascending null
\* score; the total starts at the number of questions without gold answer and
\* a question adds its raw score if it has a gold answer, -1 if it has none
\* and something was predicted, +1 if it has none and nothing was predicted;
\* the result is 100 * the maximal total / the number of scored questions and
\* the null score of the first question reaching the maximum, or 0.0.
C13_SweepRewardingNoAnswer ==
    pc = "returned" =>
        /\ SweepAsStated(cfg.exact_raw, returned[1].best_exact,
                         returned[1].best_exact_thresh, 1)
        /\ SweepAsStated(cfg.f1_raw, returned[1].best_f1, returned[1].best_f1_thresh, 1)

\* C13: the same sweep, where a question without gold answer for which
\* nothing was predicted leaves the running total as it is.
C13_Sweep ==
    pc = "returned" =>
        /\ SweepAsStated(cfg.exact_raw, returned[1].best_exact,
                         returned[1].best_exact_thresh, 0)
        /\ SweepAsStated(cfg.f1_raw, returned[1].best_f1, returned[1].best_f1_thresh, 0)

\* a returned sweep that visited a question without gold answer predicted
\* empty, and whose maximum was first reached at a later question
C13_Witness ==
    /\ pc = "returned"
    /\ \E i \in 1..Len(Visited(cfg.f1_raw)) :
          /\ ~cfg.qid_to_has_ans[Visited(cfg.f1_raw)[i]]
          /\ cfg.preds[Visited(cfg.f1_raw)[i]] = EmptyText
          /\ FirstMaximum(cfg.f1_raw, 0) > i

(***************************************************************************)
(* Properties of the Features of a whole call.                             *)
(***************************************************************************)
\* C17: over one call of _convert_examples_to_features the unique_ids of the
\* Features are pairwise distinct and strictly increasing in output order:
\* they start at 1000000000 and grow by exactly 1 per Feature, whichever
\* example a Feature belongs to.
C17_UniqueIds ==
    /\ \A k \in 1..Len(features) : features[k].unique_id = 1000000000 + (k - 1)
    /\ \A j, k \in 1..Len(features) :
          j < k => features[j].unique_id < features[k].unique_id

\* C17 witness: the returned Features of two examples, the first with two
\* chunks
C17_Witness ==
    /\ pc = "returned"
    /\ \E j, k \in 1..Len(features) :
          /\ j < k
          /\ features[j].example_index = 0
          /\ features[k].example_index = 0
    /\ \E k \in 1..Len(features) : features[k].example_index = 1

FeaturesOfExample(i) == SelectSeq(features, LAMBDA f : f.example_index = i)

\* C18: every example given to _convert_examples_to_features, whatever its
\* document (also one without tokens, or whose tokens yield no sub-token),
\* has at least one Feature, and as many Features as DocSpans.
C18_EveryExampleHasFeature ==
    /\ pc = "returned" =>
          \A i \in 0..(Len(examples) - 1) : Len(FeaturesOfExample(i)) >= 1
    /\ (pc = "features" /\ doc_span_index = Len(doc_spans)) =>
          Len(FeaturesOfExample(example_index)) = Len(doc_spans)

\* the example of a Feature, its token positions and its DocSpan
ExampleOf(f) == examples[f.example_index + 1]

GoldSpan(f) == TokPositions(ExampleOf(f), cfg.is_training)

DocSpanOf(f) ==
    LET qtokens == QueryTokens(ExampleOf(f), cfg.max_query_length)
        td == TokenizeDoc(ExampleOf(f).doc_tokens, Len(ExampleOf(f).doc_tokens))
    IN  SlidingWindow(Len(td.all_doc_tokens), << >>, 0,
                      MaxTokensForDoc(cfg.max_seq_length, qtokens),
                      cfg.doc_stride)[f.doc_span_index + 1]

DocEnd(f) == DocSpanOf(f).start + DocSpanOf(f).length - 1

EntirelyOutside(f) == GoldSpan(f)[2] < DocSpanOf(f).start \/ GoldSpan(f)[1] > DocEnd(f)

EntirelyInside(f) == GoldSpan(f)[1] >= DocSpanOf(f).start /\ GoldSpan(f)[2] <= DocEnd(f)

DocOffset(f) ==
    IF cfg.sequence_a_is_doc
    THEN 0
    ELSE Len(QueryTokens(ExampleOf(f), cfg.max_query_length)) + 2

LabelledUnanswerable(f) ==
    /\ f.is_impossible
    /\ f.start_position = f.cls_index
    /\ f.end_position = f.cls_index

LabelledShifted(f) ==
    /\ ~f.is_impossible
    /\ f.start_position = GoldSpan(f)[1] - DocSpanOf(f).start + DocOffset(f)
    /\ f.end_position = GoldSpan(f)[2] - DocSpanOf(f).start + DocOffset(f)

\* C19 as stated: in training mode a Feature is labelled unanswerable, with
\* start_position = end_position = cls_index, if its example is impossible or
\* the gold span lies entirely outside the chunk; in every other case, a gold
\* span partly overlapping the chunk included, its positions are the gold
\* positions shifted by the document offset.
C19_ShiftedUnlessEntirelyOutside ==
    cfg.is_training =>
        \A k \in 1..Len(features) :
            IF ExampleOf(features[k]).is_impossible \/ EntirelyOutside(features[k])
            THEN LabelledUnanswerable(features[k])
            ELSE LabelledShifted(features[k])

\* C19: in training mode a Feature is labelled unanswerable, with
\* start_position = end_position = cls_index, if its example is impossible or
\* the gold span does not lie entirely inside the chunk (a span partly
\* overlapping the chunk included); only a gold span entirely inside the
\* chunk has its positions shifted by the document offset.
C19_ShiftedOnlyIfEntirelyInside ==
    cfg.is_training =>
        \A k \in 1..Len(features) :
            IF ExampleOf(features[k]).is_impossible \/ ~EntirelyInside(features[k])
            THEN LabelledUnanswerable(features[k])
            ELSE LabelledShifted(features[k])

\* C19 witness: a training example has a chunk the gold span partly overlaps
\* and a chunk that holds it
C19_Witness ==
    /\ pc = "returned"
    /\ cfg.is_training
    /\ \E j, k \in 1..Len(features) :
          /\ ~ExampleOf(features[j]).is_impossible
          /\ ~EntirelyInside(features[j])
          /\ ~EntirelyOutside(features[j])
          /\ features[k].example_index = features[j].example_index
          /\ EntirelyInside(features[k])

\* the chunks a Feature of paragraph_len tokens can hold
ChunksOf(f) ==
    LET doc == TokenizeDoc(ExampleOf(f).doc_tokens, Len(ExampleOf(f).doc_tokens)).all_doc_tokens
    IN  {[i \in 1..f.paragraph_len |-> doc[s + i]] : s \in 0..(Len(doc) - f.paragraph_len)}

\* C20: the Features built through convert_to_tensors follow the order of
\* the model family: for bert the tokens are [CLS] query [SEP] chunk [SEP]
\* with cls_index 0, for xlnet they are chunk [SEP] query [SEP] [CLS] with
\* cls_index the last position before the padding; the keys of
\* token_to_orig_map are the positions of the chunk in either case.
C20_FamilyOrder ==
    \A k \in 1..Len(features) :
        LET f == features[k]
            query == QueryTokens(ExampleOf(f), cfg.max_query_length)
        IN  \E chunk \in ChunksOf(f) :
                IF cfg.model_type = "xlnet"
                THEN /\ f.tokens = chunk \o <<sep_token>> \o query
                                       \o <<sep_token, cls_token>>
                     /\ f.cls_index = Len(f.tokens) - 1
                     /\ DOMAIN f.token_to_orig_map = 0..(Len(chunk) - 1)
                ELSE /\ f.tokens = <<cls_token>> \o query \o <<sep_token>> \o chunk
                                       \o <<sep_token>>
                     /\ f.cls_index = 0
                     /\ DOMAIN f.token_to_orig_map =
                            (Len(query) + 2)..(Len(query) + 1 + Len(chunk))

\* the example is answerable and each of its document tokens has a sub-token
AnswerableWithSubTokens(example) ==
    /\ ~example.is_impossible
    /\ example.start_position <= example.end_position
    /\ \A w \in 1..Len(example.doc_tokens) : TokenizeWord(example.doc_tokens[w]) # << >>

\* C30: in training mode with the default layout, for an answerable example
\* (start_position <= end_position) whose document tokens each yield at least
\* one sub-token, every Feature not marked impossible has cls_index <
\* start_position <= end_position, both are keys of token_to_orig_map, and
\* tokens[start_position..end_position] is the improved gold sub-token span.
C30_AnswerableLabels ==
    (cfg.is_training /\ ~cfg.cls_token_at_end /\ ~cfg.sequence_a_is_doc) =>
        \A k \in 1..Len(features) :
            LET f == features[k]
                doc == TokenizeDoc(ExampleOf(f).doc_tokens,
                                   Len(ExampleOf(f).doc_tokens)).all_doc_tokens
            IN  (AnswerableWithSubTokens(ExampleOf(f)) /\ ~f.is_impossible) =>
                    /\ f.cls_index < f.start_position
                    /\ f.start_position <= f.end_position
                    /\ f.start_position \in DOMAIN f.token_to_orig_map
                    /\ f.end_position \in DOMAIN f.token_to_orig_map
                    /\ [n \in 1..(f.end_position - f.start_position + 1) |->
                            f.tokens[f.start_position + n]]
                         = [n \in 1..(GoldSpan(f)[2] - GoldSpan(f)[1] + 1) |->
                                doc[GoldSpan(f)[1] + n]]

\* a gold answer of two sub-tokens labelled in the second chunk of its document
C30_Witness ==
    /\ pc = "returned"
    /\ cfg.is_training
    /\ ~cfg.cls_token_at_end
    /\ ~cfg.sequence_a_is_doc
    /\ \E k \in 1..Len(features) :
          /\ AnswerableWithSubTokens(ExampleOf(features[k]))
          /\ ~features[k].is_impossible
          /\ features[k].doc_span_index > 0
          /\ features[k].end_position > features[k].start_position

(***************************************************************************)
(* Further properties of the decoders.                                     *)
(***************************************************************************)
CombinedScore(entry) == entry.start_logit + entry.end_logit

NonIncreasing(nbest) ==
    \A a, b \in 1..Len(nbest) : a < b => CombinedScore(nbest[a]) >= CombinedScore(nbest[b])

\* C21 as stated: in both decoders, with null-answer mode on or off, the final
\* n-best list of every example is in non-increasing order of combined score,
\* the lists with the forced null entry or the placeholder entry included.
C21_NBestNonIncreasing ==
    \A i \in 1..Len(cand) : NonIncreasing(all_nbest_json[QasId(i)])

\* the list write_predictions makes in null-answer mode when the null entry is
\* the only one: the placeholder, put ahead of it
PlaceholderAhead(nbest) ==
    /\ cfg.head = "standard"
    /\ cfg.version_2_with_negative
    /\ Len(nbest) = 2
    /\ nbest[1] = PlaceholderEntry
    /\ nbest[2].text = EmptyText

\* C21: the final n-best list of every example is in non-increasing order of
\* combined score in both decoders, the forced null entry included, except for
\* the zero-scored placeholder that write_predictions in null-answer mode puts
\* ahead of a null entry left alone: the entries after it are in order.
C21_NBestNonIncreasingAfterPlaceholder ==
    \A i \in 1..Len(cand) :
        LET nbest == all_nbest_json[QasId(i)]
        IN  IF PlaceholderAhead(nbest) THEN NonIncreasing(Tail(nbest)) ELSE NonIncreasing(nbest)

\* two candidates with text and the forced null entry after them, the scores
\* not all equal
C21_Witness ==
    /\ cfg.head = "standard"
    /\ cfg.version_2_with_negative
    /\ \E i \in 1..Len(cand) :
          LET nbest == all_nbest_json[QasId(i)]
          IN  /\ Len(nbest) = 3
              /\ nbest[3].text = EmptyText
              /\ nbest[1].text # EmptyText
              /\ nbest[2].text # EmptyText
              /\ CombinedScore(nbest[1]) > CombinedScore(nbest[3])

\* the cls_logits of the example's features
ClsLogitsOf(i) ==
    {ResultOf(all_results, DecodedFeatures(i)[f].unique_id).cls_logits
        : f \in 1..Len(DecodedFeatures(i))}

\* the entry made of a candidate
EntryOf(i, p) ==
    [text |-> TextOf(i, p), start_logit |-> p.start_logit, end_logit |-> p.end_logit]

\* C22: in write_predictions_extended, with version_2_with_negative on or off,
\* the null score recorded for an example is the minimum cls_logits of its
\* features; the prediction is the text of the first n-best entry, which is the
\* best kept candidate whenever one is kept; no threshold is applied and no
\* null entry is inserted: every entry is made of a candidate, or the list is
\* the placeholder alone.
C22_PointerHeadPrediction ==
    cfg.head = "pointer" =>
        \A i \in 1..Len(cand) :
            LET nbest == all_nbest_json[QasId(i)]
            IN  /\ scores_diff_json[QasId(i)] =
                       IF DecodedFeatures(i) = << >>
                       THEN LargeScore
                       ELSE Minimum(ClsLogitsOf(i))
                /\ all_predictions[QasId(i)] = nbest[1].text
                /\ (cand[i] # << >> /\ cfg.n_best_size >= 1)
                       => nbest[1] = EntryOf(i, cand[i][1])
                /\ \/ nbest = <<PlaceholderEntryExtended>>
                   \/ \A a \in 1..Len(nbest) :
                          \E k \in 1..Len(cand[i]) : nbest[a] = EntryOf(i, cand[i][k])

\* an example of two features, the second with the larger cls_logits, decoded
\* without null-answer mode to a prediction with text
C22_Witness ==
    /\ cfg.head = "pointer"
    /\ ~cfg.version_2_with_negative
    /\ \E i \in 1..Len(cand) :
          /\ Len(DecodedFeatures(i)) = 2
          /\ ResultOf(all_results, DecodedFeatures(i)[2].unique_id).cls_logits
                 > scores_diff_json[QasId(i)]
          /\ all_predictions[QasId(i)] # EmptyText

\* the examples all of whose Features have a result
ExamplesWithResults == (1..Len(examples)) \ ExamplesMissingResult

\* C26: in write_predictions_extended, for Features built by the feature
\* builder, every kept PrelimPrediction has start_index and end_index below
\* paragraph_len - 1, start_index flagged as max-context owner, end_index >=
\* start_index and a length of at most max_answer_length, and both indices are
\* keys of the Feature's token_to_orig_map, so that the lookups of the text
\* materialization never fail.
C26_KeptPrelimsMapped ==
    cfg.head = "pointer" =>
        /\ \A i \in ExamplesWithResults :
               \A k \in 1..Len(Survivors(i)) :
                   LET p == Survivors(i)[k]
                       f == DecodedFeatures(i)[p.feature_index + 1]
                   IN  /\ p.start_index < f.paragraph_len - 1
                       /\ p.end_index < f.paragraph_len - 1
                       /\ p.start_index \in DOMAIN f.token_is_max_context
                       /\ f.token_is_max_context[p.start_index]
                       /\ p.end_index >= p.start_index
                       /\ p.end_index - p.start_index + 1 <= cfg.max_answer_length
                       /\ p.start_index \in DOMAIN f.token_to_orig_map
                       /\ p.end_index \in DOMAIN f.token_to_orig_map
        /\ \A i \in 1..Len(cand) :
               \A k \in 1..Len(cand[i]) :
                   \E n \in 1..Len(Survivors(i)) : cand[i][k] = Survivors(i)[n]
        /\ pc = "KeyError" => (example_index + 1) \in ExamplesMissingResult

\* an example decoded by the pointer head from a Feature whose document
\* follows the query: position 0 is below paragraph_len - 1 and is not a key of
\* token_to_orig_map, and a candidate starting at the first document token is
\* kept and gives the prediction
C26_Witness ==
    /\ cfg.head = "pointer"
    /\ ~cfg.sequence_a_is_doc
    /\ \E i \in 1..Len(cand) :
          /\ 0 \notin DOMAIN DecodedFeatures(i)[1].token_to_orig_map
          /\ 0 < DecodedFeatures(i)[1].paragraph_len - 1
          /\ cand[i] # << >>
          /\ all_predictions[QasId(i)] # EmptyText

\* C27: in write_predictions with null-answer mode on, for every example that
\* has at least one Feature and whose non-null candidates give non-empty text,
\* the final n-best list has an entry with non-empty text (a candidate or the
\* placeholder "empty"), for any n_best_size >= 0 and any logits: computing
\* score_diff never finds best_non_null_entry missing.
C27_BestNonNullExists ==
    (cfg.head = "standard" /\ cfg.version_2_with_negative) =>
        /\ \A i \in 1..Len(cand) :
               (/\ DecodedFeatures(i) # << >>
                /\ \A k \in 1..Len(cand[i]) :
                       cand[i][k].start_index > 0 => TextOf(i, cand[i][k]) # EmptyText)
                   => \E a \in 1..Len(all_nbest_json[QasId(i)]) :
                          all_nbest_json[QasId(i)][a].text # EmptyText
        /\ pc # "AttributeError"

\* with n_best_size = 0 nothing but the null candidate is collected and the
\* loop keeps nothing: the list is the placeholder ahead of the forced null entry
C27_Witness ==
    /\ cfg.head = "standard"
    /\ cfg.version_2_with_negative
    /\ cfg.n_best_size = 0
    /\ \E i \in 1..Len(cand) :
          /\ DecodedFeatures(i) # << >>
          /\ Len(all_nbest_json[QasId(i)]) = 2
          /\ all_nbest_json[QasId(i)][1] = PlaceholderEntry
          /\ all_nbest_json[QasId(i)][2].text = EmptyText

\* C28: for n_best_size >= 1 the final n-best list of an example has at most
\* n_best_size + 1 entries in write_predictions (at most n_best_size with
\* null-answer mode off) and at most n_best_size entries in
\* write_predictions_extended, and it never has zero entries.
C28_NBestLength ==
    cfg.n_best_size >= 1 =>
        \A i \in 1..Len(cand) :
            LET nbest == all_nbest_json[QasId(i)]
            IN  /\ Len(nbest) >= 1
                /\ Len(nbest) <= IF cfg.head = "standard" /\ cfg.version_2_with_negative
                                 THEN cfg.n_best_size + 1
                                 ELSE cfg.n_best_size

\* the loop filled the list with n_best_size candidates with text and the
\* forced null entry came on top
C28_Witness ==
    /\ cfg.head = "standard"
    /\ cfg.version_2_with_negative
    /\ cfg.n_best_size >= 1
    /\ \E i \in 1..Len(cand) :
          LET nbest == all_nbest_json[QasId(i)]
          IN  /\ Len(nbest) = cfg.n_best_size + 1
              /\ nbest[Len(nbest)].text = EmptyText
              /\ \A a \in 1..cfg.n_best_size : nbest[a].text # EmptyText

\* the orders of a list of n elements, and the list l in the order f
Orders(n) == {f \in [1..n -> 1..n] : \A a, b \in 1..n : f[a] = f[b] => a = b}

Reordered(l, f) == [k \in 1..Len(l) |-> l[f[k]]]

\* what the decoder of the configuration computes for the i-th example
Decoded(i, results) ==
    IF cfg.head = "standard"
    THEN DecodeStandard(cfg, DecodedFeatures(i), results)
    ELSE DecodeExtended(cfg, DecodedFeatures(i), results)

\* C29: decoding does not depend on the order of all_results: with one result
\* per Feature unique_id, any permutation of all_results gives the same
\* predictions, n-best lists and null odds, in both decoders.
C29_OrderIndependent ==
    \A f \in Orders(Len(all_results)) :
        /\ \A i \in 1..Len(cand) :
               LET r == Decoded(i, Reordered(all_results, f))
               IN  /\ r.err = "none"
                   /\ r.prediction = all_predictions[QasId(i)]
                   /\ r.nbest = all_nbest_json[QasId(i)]
                   /\ QasId(i) \in DOMAIN scores_diff_json
                          => r.score_diff = scores_diff_json[QasId(i)]
        /\ pc \in RaisedStates
               => Decoded(example_index + 1, Reordered(all_results, f)).err = pc

\* an example of two Features with different results decoded to a prediction
\* with text, so that the other order of all_results hands each Feature's
\* result over at the other's place
C29_Witness ==
    /\ Len(all_results) >= 2
    /\ all_results[1].unique_id # all_results[2].unique_id
    /\ [all_results[1] EXCEPT !.unique_id = 0] # [all_results[2] EXCEPT !.unique_id = 0]
    /\ \E i \in 1..Len(cand) :
          /\ Len(DecodedFeatures(i)) = 2
          /\ all_predictions[QasId(i)] # EmptyText
          /\ QasId(i) \in DOMAIN scores_diff_json

(***************************************************************************)
(* Properties of _check_is_max_context on its own.                         *)
(***************************************************************************)
\* the spans of the list that contain the position (0-based indices)
Containing == {k \in 0..(Len(cfg.doc_spans) - 1) :
                  /\ cfg.doc_spans[k + 1].start <= cfg.position
                  /\ cfg.position <= cfg.doc_spans[k + 1].start
                                         + cfg.doc_spans[k + 1].length - 1}

\* 100 * (min(p - start, end - p) + 0.01 * length), exactly
ExactScore(k) ==
    LET sp == cfg.doc_spans[k + 1]
        left == cfg.position - sp.start
        right == sp.start + sp.length - 1 - cfg.position
    IN  100 * (IF left < right THEN left ELSE right) + sp.length

Maximizing == {k \in Containing : \A j \in Containing : ExactScore(j) <= ExactScore(k)}

\* C24: _check_is_max_context(doc_spans, i, p) is true exactly when span i is
\* the lowest-indexed span among those containing p that maximize
\* min(p - start, end - p) + 0.01 * length, end = start + length - 1; it is
\* false for every i when no span contains p.
C24_LowestIndexedMaximizer ==
    pc = "returned" =>
        (returned[1] <=> (/\ cfg.cur_span_index \in Maximizing
                          /\ \A j \in Maximizing : cfg.cur_span_index <= j))

(***************************************************************************)
(* Termination of the feature builder.                                     *)
(***************************************************************************)
\* C23: feature construction always terminates, also when
\* len(query_tokens) + 3 >= max_seq_length (a document budget of 0 or less):
\* the call returns (or raises) and never appends DocSpans forever.
C23_Terminates == <>(pc \in {"returned", "AssertionError"})

\* the while loop of line 344 only goes on beyond MaxDocSpans passes when the
\* document budget is 0 or less
LoopsOnlyWithoutBudget ==
    (pc = "doc_span" /\ Len(doc_spans) = MaxDocSpans)
        => MaxTokensForDoc(cfg.max_seq_length, query_tokens) <= 0

(***************************************************************************)
(* The training loop.                                                      *)
(***************************************************************************)
\* C25: in train with max_steps > 0 the number of optimizer steps performed
\* (global_step) never exceeds max_steps, for any gradient_accumulation_steps
\* of at least 1, any number of batches per epoch and any number of epochs.
C25_GlobalStepWithinMaxSteps ==
    cfg.max_steps > 0 => global_step <= cfg.max_steps

\* the optimizer steps never exceed max_steps by more than one
GlobalStepWithinOneOfMaxSteps ==
    cfg.max_steps > 0 => global_step <= cfg.max_steps + 1

====
